---- MODULE Spec2Model ----
(***************************************************************************)
(* Model of the per-peer lifecycle code of wireguard-go, device/peer.go:   *)
(* Device.NewPeer, Peer.Start, Peer.Stop and Peer.ZeroAndFlushAll, run by  *)
(* concurrent callers, together with the three peer routines, the device   *)
(* flags and the handshake/keypair bookkeeping they interact with.         *)
(*                                                                         *)
(* The operations are modelled statement by statement (one action per      *)
(* blocking point, locked section or read of a device flag), because their *)
(* callers race with each other, with the routines and with the device.    *)
(***************************************************************************)
EXTENDS Integers, Naturals, FiniteSets, Sequences, TLC

VARIABLES
    isClosed,    \* device.isClosed
    isUp,        \* device.isUp
    peers,       \* device.peers.keyMap: public key -> Peer (NoPeer when absent)
    indexTable,  \* device.indexTable: the local indices in use
    pc,          \* per calling goroutine: the statement it is about to run
    arg,         \* per calling goroutine: the peer (public key) it operates on
    event,       \* the call that returned in the last step (NoEvent otherwise)
    panic,       \* the Go runtime panic that ended the process, if any
    bind,        \* device.net.bind
    RoamingDisabled, \* the package variable RoamingDisabled
    allowedips,  \* device.allowedips: address -> the peer it is routed to
    endpointArg, \* parseEndpoint: the string s it is called with
    endpointRet, \* parseEndpoint: what it returned (NotCalled before the call)
    line,        \* FromUAPI: the line scanner.Text() returned last, split at "="
    cfg,         \* FromUAPI: the Config built so far
    deviceConfig,\* FromUAPI: no public_key line has been read yet
    scanned,     \* FromUAPI: the number of lines read
    uapiErr,     \* FromUAPI: the error returned ("scanning" before it returns)
    times,       \* tai64n: the two times that are stamped
    stamps,      \* tai64n: their timestamps (NotStamped before)
    running,     \* per goroutine: the operation it runs and its next statement
    locks,       \* per lock: the goroutine that holds it for writing, and its readers
    access,      \* the lock statement or write executed in the last step
    closeSignal, \* bindtest: per bind "nil", "open" or "closed"
    chans,       \* bindtest: per receiving bind and family, the queued buffers
    mem,         \* bindtest: the bytes of the caller's buffers, by address
    made,        \* bindtest: the number of buffers Send has made for a channel
    sending,     \* bindtest: per bind, the Send that is at its channel send
    wire,        \* bindtest: per bind and family, the bytes sent and not yet received
    bindRet      \* bindtest: the call that returned in the last step

\* The state of the device and its peers.
deviceVars == <<isClosed, isUp, peers, indexTable, pc, arg, event, panic>>

\* The network configuration, which no peer operation changes.
netVars == <<bind, RoamingDisabled, allowedips>>

\* The argument and the result of parseEndpoint.
endpointVars == <<endpointArg, endpointRet>>

\* The state of a FromUAPI call.
uapiVars == <<line, cfg, deviceConfig, scanned, uapiErr>>

\* Two times and their TAI64N timestamps.
stampVars == <<times, stamps>>

\* The locks and the goroutines' positions in the operations that take them.
lockVars == <<running, locks, access>>

\* The state that no peer operation changes.
\* The channel binds of package bindtest.
bindVars == <<closeSignal, chans, mem, made, sending, wire, bindRet>>

otherVars == <<netVars, endpointVars, uapiVars, stampVars, lockVars, bindVars>>

vars == <<deviceVars, otherVars>>

-----------------------------------------------------------------------------
(* Bounds of the model *)

\* Stand-in for the device's peer limit (the constant MaxPeers of the device
\* package); small so that the limit is reached.
MaxPeers == 2

\* A peer is (re)started at most this many times by Start calls.
MaxGen == 2

\* Local session indices are drawn from 1..MaxIndex.
MaxIndex == 3

\* SendBuffer is called with buffers of 0..MaxBuffer bytes, while the peer's
\* txBytes stays within MaxTxBytes.
MaxBuffer == 2
MaxTxBytes == 3

\* Endpoint hosts are strings of at most MaxHost characters.
MaxHost == 5

\* FromUAPI reads at most MaxLines lines.
MaxLines == 3

\* The times that are stamped lie in the seconds 0..MaxSec.
MaxSec == 1

\* A keypair sends at most this many packets before it counts as used up.
MaxNonce == 1

\* The Send calls of the two binds send at most MaxSends buffers in all.
MaxSends == 3

\* Stand-in for the capacity 8192 of the channels of NewChannelBinds; small
\* so that a channel fills up, and more than one so that a channel holds
\* buffers in an order.
ChannelCapacity == 2

\* Stand-in for the constant RejectAfterMessages (2^64 - 2^13 - 1): the send
\* nonce at which a keypair refuses to send.
RejectAfterMessages == MaxNonce + 1

\* const PeerRoutineNumber = 3
PeerRoutineNumber == 3

Threads == {"t1", "t2"}
MainThread == "t1"

\* One more key than the device admits peers.
Keys == 1..(MaxPeers + 1)
\* The peer the concurrent callers of Spec work on.
LifecycleKeys == {1}

Indices == 1..MaxIndex

\* The UDP source addresses packets arrive from.
Addrs == {"a1", "a2"}
\* The local indices in use under SpecDevice: one handshake at a time.
DeviceIndices == {1}

Routines == {"RoutineNonce", "RoutineSequentialSender", "RoutineSequentialReceiver"}

None == "none"
NoPeer == [absent |-> TRUE]
\* A nil keypair pointer.
NoKeypair == [localIndex |-> 0, sendNonce |-> 0]
NoEvent == [call |-> None]
NotCalled == [err |-> "not called"]
NotStamped == <<>>
NoAccess == [do |-> None]
NoSend == [bc |-> 0]
NoBindCall == [call |-> None]

\* The address of the buffer b that Send is called with.
CallerBuffer == 1

\* binds[0] and binds[1] of NewChannelBinds, and the two families.
Binds == {0, 1}
Families == {4, 6}

\* The buffers that are sent, as sequences of bytes.
Buffers == {<<1>>, <<0, 1>>}

\* The locks the peer operations take.
LockNames ==
    {"device.staticIdentity", "device.peers", "peer", "peer.routines",
     "peer.keypairs", "peer.handshake.mutex", "device.indexTable",
     "device.net", "device.allowedips"}
\* time.Unix(0, 0)
ZeroTime == [sec |-> 0, nsec |-> 0]

-----------------------------------------------------------------------------
(* Channels: a Go channel value is nil, or a channel made at some point,    *)
(* open or closed.  id tells the channels of successive Starts apart.       *)

NilChan == [id |-> 0, st |-> "nil"]

MakeChan(g) == [id |-> g, st |-> "open"]

\* close(c) panics on a nil channel and on a closed channel.
ClosePanics(c) == c.st # "open"

CloseChan(c) == [c EXCEPT !.st = "closed"]

-----------------------------------------------------------------------------
(* The Peer struct *)

\* Handshake.Clear(): the handshake state is zeroed.
ClearedHandshake(h) == [h EXCEPT !.state = "zeroed", !.localIndex = 0]

\* new(Peer) followed by NewPeer's initialisation of it.
FreshPeer(pk) ==
    [isRunning |-> FALSE,
     rlock     |-> None,
     starting  |-> 0,
     stopping  |-> 0,
     gen       |-> 0,
     stop      |-> NilChan,
     queue     |-> [nonce |-> NilChan, outbound |-> NilChan, inbound |-> NilChan],
     signals   |-> [id |-> 0, flush |-> FALSE],
     timers    |-> [id |-> 0, st |-> "none"],
     routine   |-> [r \in Routines |-> "none"],
     keypairs  |-> [previous |-> NoKeypair, current |-> NoKeypair, next |-> NoKeypair],
     handshake |-> [state |-> "zeroed", localIndex |-> 0, remoteStatic |-> pk,
                    lastSentHandshake |-> "zero"],
     endpoint  |-> None,
     stats     |-> [txBytes |-> 0]]

Exists(k) == peers[k] # NoPeer

KeyMap == {k \in Keys : Exists(k)}

\* The statements of NewPeer that run with device.peers.Lock() held and the
\* new peer in the map (lines 133-141).
NewPeerLabels == {"newpeer_is_up", "newpeer_start", "newpeer_started"}

\* Peer k is in the map and the NewPeer call that made it has returned: until
\* then the call holds device.peers.Lock() and has not handed the peer out,
\* so that no other goroutine has it.
Reachable(k) ==
    /\ Exists(k)
    /\ \A t \in Threads : ~(arg[t] = k /\ pc[t] \in NewPeerLabels)

\* The local indices a peer's keypair slots and handshake hold.
OwnedIndices(p) ==
    {p.keypairs.previous.localIndex, p.keypairs.current.localIndex,
     p.keypairs.next.localIndex, p.handshake.localIndex} \ {0}

\* Some routine of the peer is past its start and has not exited.
PeerActive(k) == \E r \in Routines : peers[k].routine[r] = "running"

RunningRoutines(p) == {r \in Routines : p.routine[r] # "none"}

\* Goroutine t returns v from its call of op on peer k.
Return(t, op, k, v) ==
    /\ pc' = [pc EXCEPT ![t] = "idle"]
    /\ arg' = [arg EXCEPT ![t] = 0]
    /\ event' = [thread |-> t, call |-> op, peer |-> k, result |-> v]
    /\ UNCHANGED otherVars

\* Goroutine t of a call on peer k goes on to the statement at label.
Goto(t, k, label) ==
    /\ pc' = [pc EXCEPT ![t] = label]
    /\ arg' = [arg EXCEPT ![t] = k]
    /\ event' = NoEvent
    /\ UNCHANGED otherVars

-----------------------------------------------------------------------------
(* The state after device construction: no peers, the device down. *)

DeviceInit ==
    /\ isClosed = FALSE
    /\ isUp = FALSE
    /\ peers = [k \in Keys |-> NoPeer]
    /\ indexTable = {}
    /\ pc = [t \in Threads |-> "idle"]
    /\ arg = [t \in Threads |-> 0]
    /\ event = NoEvent
    /\ panic = None

\* No bind, roaming enabled, no allowed IPs.
NetInit ==
    /\ bind = None
    /\ RoamingDisabled = FALSE
    /\ allowedips = [a \in Addrs |-> 0]

\* parseEndpoint has not been called.
EndpointInit ==
    /\ endpointArg = <<>>
    /\ endpointRet = NotCalled

\* Lines 97-99 of FromUAPI: an empty Config, no peer yet.
UapiInit ==
    /\ line = <<>>
    /\ cfg = [PrivateKey |-> <<>>, ListenPort |-> 0, Peers |-> <<>>]
    /\ deviceConfig = TRUE
    /\ scanned = 0
    /\ uapiErr = "scanning"

\* Nothing has been stamped.
StampInit ==
    /\ times = <<ZeroTime, ZeroTime>>
    /\ stamps = NotStamped

\* NewChannelBinds, lines 349-372: four empty channels, no bind open; the
\* caller of Send has one buffer (at address 1).
BindInit ==
    /\ closeSignal = [c \in Binds |-> "nil"]
    /\ chans = [ch \in Binds \X Families |-> <<>>]
    /\ mem = <<<<0, 1>>>>
    /\ made = 0
    /\ sending = [c \in Binds |-> NoSend]
    /\ wire = [ch \in Binds \X Families |-> <<>>]
    /\ bindRet = NoBindCall

\* No operation is running and every lock is free.
LockInit ==
    /\ running = [t \in Threads |-> [op |-> "idle", at |-> 0]]
    /\ locks = [l \in LockNames |-> [writer |-> None, readers |-> {}]]
    /\ access = NoAccess

Init ==
    /\ DeviceInit
    /\ NetInit
    /\ EndpointInit
    /\ UapiInit
    /\ StampInit
    /\ LockInit
    /\ BindInit

-----------------------------------------------------------------------------
(* The device flags, set by Device.Up, Device.Down and Device.Close. *)

DeviceUp ==
    /\ ~isClosed /\ ~isUp
    /\ isUp' = TRUE
    /\ UNCHANGED <<isClosed, peers, indexTable, pc, arg, panic>>
    /\ event' = NoEvent
    /\ UNCHANGED otherVars

DeviceDown ==
    /\ isUp
    /\ isUp' = FALSE
    /\ UNCHANGED <<isClosed, peers, indexTable, pc, arg, panic>>
    /\ event' = NoEvent
    /\ UNCHANGED otherVars

DeviceClose ==
    /\ ~isClosed
    /\ isClosed' = TRUE
    /\ isUp' = FALSE
    /\ UNCHANGED <<peers, indexTable, pc, arg, panic>>
    /\ event' = NoEvent
    /\ UNCHANGED otherVars

-----------------------------------------------------------------------------
(* Peer.Start, lines 170-220 *)

\* Variant of ResetRoutineState that keeps the old stop channel instead of
\* making one (line 193 missing).
ResetRoutineStateKeepsStop(p) ==
    [p EXCEPT !.gen      = p.gen + 1,
              !.starting = p.starting + PeerRoutineNumber,
              !.stopping = p.stopping + PeerRoutineNumber,
              !.queue    = [nonce    |-> MakeChan(p.gen + 1),
                            outbound |-> MakeChan(p.gen + 1),
                            inbound  |-> MakeChan(p.gen + 1)],
              !.timers   = [id |-> p.gen + 1, st |-> "init"],
              !.signals  = [id |-> p.gen + 1, flush |-> FALSE],
              !.routine  = [r \in Routines |-> "spawned"]]

\* Lines 193-215 of Start: the stop channel and the queues are made, both
\* WaitGroups get PeerRoutineNumber, the timers and signal channels are
\* initialised and the three routines are spawned.
ResetRoutineState(p) ==
    [p EXCEPT !.gen      = p.gen + 1,
              !.stop     = MakeChan(p.gen + 1),
              !.starting = p.starting + PeerRoutineNumber,
              !.stopping = p.stopping + PeerRoutineNumber,
              !.queue    = [nonce    |-> MakeChan(p.gen + 1),
                            outbound |-> MakeChan(p.gen + 1),
                            inbound  |-> MakeChan(p.gen + 1)],
              !.timers   = [id |-> p.gen + 1, st |-> "init"],
              !.signals  = [id |-> p.gen + 1, flush |-> FALSE],
              !.routine  = [r \in Routines |-> "spawned"]]

\* Lines 173-175: the isClosed check that opens Start.  (Calls are made while
\* the peer has been started fewer than MaxGen times: the bound of the model.)
StartCheckClosed(t, k) ==
    /\ pc[t] = "idle"
    /\ Reachable(k)
    /\ peers[k].gen < MaxGen
    /\ IF isClosed
         THEN Return(t, "Start", k, "Start called on closed device")
         ELSE Goto(t, k, "start_lock")
    /\ UNCHANGED <<isClosed, isUp, peers, indexTable, panic>>

\* Line 179: peer.routines.Lock()
StartLock(t) ==
    /\ pc[t] = "start_lock"
    /\ peers[arg[t]].rlock = None
    /\ peers' = [peers EXCEPT ![arg[t]].rlock = t]
    /\ Goto(t, arg[t], "start_check_running")
    /\ UNCHANGED <<isClosed, isUp, indexTable, panic>>

\* Variant of StartCheckRunning that tests isRunning only after the routine
\* state has been reset (the check of line 182 moved below line 215).
StartCheckRunningAfterReset(t) ==
    /\ pc[t] = "start_check_running"
    /\ IF peers[arg[t]].isRunning
         THEN /\ peers' = [peers EXCEPT ![arg[t]] =
                             [ResetRoutineState(peers[arg[t]]) EXCEPT !.rlock = None]]
              /\ Return(t, "Start", arg[t], "Start called on running device")
         ELSE /\ UNCHANGED peers
              /\ Goto(t, arg[t], "start_wait_starting")
    /\ UNCHANGED <<isClosed, isUp, indexTable, panic>>

\* Lines 182-184: a running peer is not started again (the deferred Unlock runs).
StartCheckRunning(t) ==
    /\ pc[t] = "start_check_running"
    /\ IF peers[arg[t]].isRunning
         THEN /\ peers' = [peers EXCEPT ![arg[t]].rlock = None]
              /\ Return(t, "Start", arg[t], "Start called on running device")
         ELSE /\ UNCHANGED peers
              /\ Goto(t, arg[t], "start_wait_starting")
    /\ UNCHANGED <<isClosed, isUp, indexTable, panic>>

\* Line 191: peer.routines.starting.Wait()
StartWaitStarting(t) ==
    /\ pc[t] = "start_wait_starting"
    /\ peers[arg[t]].starting = 0
    /\ Goto(t, arg[t], "start_wait_stopping")
    /\ UNCHANGED <<isClosed, isUp, peers, indexTable, panic>>

\* Line 192: peer.routines.stopping.Wait()
StartWaitStopping(t) ==
    /\ pc[t] = "start_wait_stopping"
    /\ peers[arg[t]].stopping = 0
    /\ Goto(t, arg[t], "start_reset")
    /\ UNCHANGED <<isClosed, isUp, peers, indexTable, panic>>

\* Lines 193-215
StartReset(t) ==
    /\ pc[t] = "start_reset"
    /\ peers' = [peers EXCEPT ![arg[t]] = ResetRoutineState(peers[arg[t]])]
    /\ Goto(t, arg[t], "start_wait_started")
    /\ UNCHANGED <<isClosed, isUp, indexTable, panic>>

\* Line 217: peer.routines.starting.Wait()
StartWaitStarted(t) ==
    /\ pc[t] = "start_wait_started"
    /\ peers[arg[t]].starting = 0
    /\ Goto(t, arg[t], "start_set_running")
    /\ UNCHANGED <<isClosed, isUp, peers, indexTable, panic>>

\* Lines 218-219: isRunning.Set(true), return nil (the deferred Unlock runs).
StartSetRunning(t) ==
    /\ pc[t] = "start_set_running"
    /\ peers' = [peers EXCEPT ![arg[t]].isRunning = TRUE, ![arg[t]].rlock = None]
    /\ Return(t, "Start", arg[t], "nil")
    /\ UNCHANGED <<isClosed, isUp, indexTable, panic>>

-----------------------------------------------------------------------------
(* The three peer routines (RoutineNonce, RoutineSequentialSender,          *)
(* RoutineSequentialReceiver).  Each calls routines.starting.Done() when it *)
(* begins, runs until it observes the stop channel closed, and calls        *)
(* routines.stopping.Done() when it exits.                                  *)

RoutineStarted(k, r) ==
    /\ Exists(k)
    /\ peers[k].routine[r] = "spawned"
    /\ peers[k].starting > 0
    /\ peers' = [peers EXCEPT ![k].routine[r] = "running",
                              ![k].starting = peers[k].starting - 1]
    /\ UNCHANGED <<isClosed, isUp, indexTable, pc, arg, panic>>
    /\ event' = NoEvent
    /\ UNCHANGED otherVars

RoutineExit(k, r) ==
    /\ Exists(k)
    /\ peers[k].routine[r] = "running"
    /\ peers[k].stop.st = "closed"
    /\ peers[k].stopping > 0
    /\ peers' = [peers EXCEPT ![k].routine[r] = "none",
                              ![k].stopping = peers[k].stopping - 1]
    /\ UNCHANGED <<isClosed, isUp, indexTable, pc, arg, panic>>
    /\ event' = NoEvent
    /\ UNCHANGED otherVars

\* RoutineNonce takes the flush signal from signals.flushNonceQueue.
RoutineNonceFlush(k) ==
    /\ Exists(k)
    /\ peers[k].routine["RoutineNonce"] = "running"
    /\ peers[k].signals.flush
    /\ peers' = [peers EXCEPT ![k].signals.flush = FALSE]
    /\ UNCHANGED <<isClosed, isUp, indexTable, pc, arg, panic>>
    /\ event' = NoEvent
    /\ UNCHANGED otherVars

-----------------------------------------------------------------------------
(* Peer.ZeroAndFlushAll, lines 222-246 *)

\* Device.DeleteKeypair(key): a non-nil keypair's local index leaves the table.
DeleteKeypair(key, table) ==
    IF key = NoKeypair THEN table ELSE table \ {key.localIndex}

\* Lines 229-231: the index table after the three DeleteKeypair calls.
ZeroedIndexTable(p, table) ==
    DeleteKeypair(p.keypairs.next,
        DeleteKeypair(p.keypairs.current,
            DeleteKeypair(p.keypairs.previous, table)))

\* Lines 232-234: the three slots are set to nil.
ZeroedKeypairs(p) ==
    [p EXCEPT !.keypairs = [previous |-> NoKeypair,
                            current  |-> NoKeypair,
                            next     |-> NoKeypair]]

\* Peer.FlushNonceQueue(): a non-blocking send on signals.flushNonceQueue, which
\* has room for one signal; nothing is sent on a nil channel.
FlushNonceQueue(p) ==
    [p EXCEPT !.signals.flush = (p.signals.id # 0)]

\* Lines 228-235 of a call from outside Stop: the section under
\* keypairs.Lock().
ZeroAndFlushAll(t, k) ==
    /\ pc[t] = "idle"
    /\ Reachable(k)
    /\ peers' = [peers EXCEPT ![k] = ZeroedKeypairs(peers[k])]
    /\ indexTable' = ZeroedIndexTable(peers[k], indexTable)
    /\ Goto(t, k, "zero_handshake")
    /\ UNCHANGED <<isClosed, isUp, panic>>

\* Lines 240-243, in a call from outside Stop and in the call Stop makes: the
\* section under handshake.mutex.
ZeroHandshake(t) ==
    /\ pc[t] \in {"zero_handshake", "stop_zero_handshake"}
    /\ peers' = [peers EXCEPT ![arg[t]].handshake =
                                  ClearedHandshake(peers[arg[t]].handshake)]
    /\ indexTable' = indexTable \ {peers[arg[t]].handshake.localIndex}
    /\ Goto(t, arg[t], IF pc[t] = "zero_handshake" THEN "zero_flush"
                                                   ELSE "stop_zero_flush")
    /\ UNCHANGED <<isClosed, isUp, panic>>

\* Lines 245-246 of a call from outside Stop: FlushNonceQueue, return.
ZeroFlush(t) ==
    /\ pc[t] = "zero_flush"
    /\ peers' = [peers EXCEPT ![arg[t]] = FlushNonceQueue(peers[arg[t]])]
    /\ Return(t, "ZeroAndFlushAll", arg[t], "returned")
    /\ UNCHANGED <<isClosed, isUp, indexTable, panic>>

-----------------------------------------------------------------------------
(* Peer.ExpireCurrentKeypairs, lines 248-265: the handshake is cleared under *)
(* the handshake lock, lastSentHandshake is set back, and then the current   *)
(* and next keypairs are expired under the keypairs lock.  Each locked       *)
(* section is one step; the routines run between the steps.                  *)

\* Variant of ExpiredIndexTable that also deletes the current keypair's index
\* (a DeleteKeypair(keypairs.current) without clearing the slot).
ExpiredIndexTableDropsCurrent(p, table) ==
    DeleteKeypair(p.keypairs.current, table) \ {p.handshake.localIndex}

\* Line 251: peer.device.indexTable.Delete(handshake.localIndex)
ExpiredIndexTable(p, table) ==
    table \ {p.handshake.localIndex}

\* Variant of ExpiredKeypair that expires nothing (lines 259 and 262 missing).
ExpiredKeypairKeepsNonce(key) ==
    key

\* Lines 258-263: a non-nil keypair gets sendNonce = RejectAfterMessages.
ExpiredKeypair(key) ==
    IF key = NoKeypair THEN key ELSE [key EXCEPT !.sendNonce = RejectAfterMessages]

\* Lines 249-253: the section under handshake.mutex.
ExpireHandshake(t, k) ==
    /\ pc[t] = "idle"
    /\ Reachable(k)
    /\ peers' = [peers EXCEPT ![k].handshake = ClearedHandshake(peers[k].handshake)]
    /\ indexTable' = ExpiredIndexTable(peers[k], indexTable)
    /\ Goto(t, k, "expire_stamp")
    /\ UNCHANGED <<isClosed, isUp, panic>>

\* Line 254: lastSentHandshake is set to a time more than RekeyTimeout ago.
ExpireStamp(t) ==
    /\ pc[t] = "expire_stamp"
    /\ peers' = [peers EXCEPT ![arg[t]].handshake.lastSentHandshake = "expired"]
    /\ Goto(t, arg[t], "expire_keypairs")
    /\ UNCHANGED <<isClosed, isUp, indexTable, panic>>

\* Lines 256-264: the section under keypairs.Lock(); the previous slot is not
\* touched.
ExpireKeypairs(t) ==
    /\ pc[t] = "expire_keypairs"
    /\ peers' = [peers EXCEPT
                   ![arg[t]].keypairs.current = ExpiredKeypair(peers[arg[t]].keypairs.current),
                   ![arg[t]].keypairs.next    = ExpiredKeypair(peers[arg[t]].keypairs.next)]
    /\ Return(t, "ExpireCurrentKeypairs", arg[t], "returned")
    /\ UNCHANGED <<isClosed, isUp, indexTable, panic>>

-----------------------------------------------------------------------------
(* Peer.Stop, lines 267-296 *)

\* Variant of StopSwap that reads isRunning without clearing it (Get for Swap).
StopSwapKeepsFlag(t, k) ==
    /\ pc[t] = "idle"
    /\ Reachable(k)
    /\ IF peers[k].isRunning
         THEN Goto(t, k, "stop_wait_starting")
         ELSE Return(t, "Stop", k, "returned")
    /\ UNCHANGED <<isClosed, isUp, peers, indexTable, panic>>

\* Lines 271-273: isRunning.Swap(false); a peer that was not running is left alone.
StopSwap(t, k) ==
    /\ pc[t] = "idle"
    /\ Reachable(k)
    /\ IF peers[k].isRunning
         THEN /\ peers' = [peers EXCEPT ![k].isRunning = FALSE]
              /\ Goto(t, k, "stop_wait_starting")
         ELSE /\ UNCHANGED peers
              /\ Return(t, "Stop", k, "returned")
    /\ UNCHANGED <<isClosed, isUp, indexTable, panic>>

\* Line 275: peer.routines.starting.Wait()
StopWaitStarting(t) ==
    /\ pc[t] = "stop_wait_starting"
    /\ peers[arg[t]].starting = 0
    /\ Goto(t, arg[t], "stop_lock")
    /\ UNCHANGED <<isClosed, isUp, peers, indexTable, panic>>

\* Line 277: peer.routines.Lock()
StopLock(t) ==
    /\ pc[t] = "stop_lock"
    /\ peers[arg[t]].rlock = None
    /\ peers' = [peers EXCEPT ![arg[t]].rlock = t]
    /\ Goto(t, arg[t], "stop_timers")
    /\ UNCHANGED <<isClosed, isUp, indexTable, panic>>

\* Line 282: peer.timersStop()
StopTimers(t) ==
    /\ pc[t] = "stop_timers"
    /\ peers' = [peers EXCEPT ![arg[t]].timers.st = "stopped"]
    /\ Goto(t, arg[t], "stop_close_stop")
    /\ UNCHANGED <<isClosed, isUp, indexTable, panic>>

\* Line 286: close(peer.routines.stop)
StopCloseStop(t) ==
    /\ pc[t] = "stop_close_stop"
    /\ IF ClosePanics(peers[arg[t]].stop)
         THEN /\ panic' = "close of nil or closed channel"
              /\ Goto(t, arg[t], "panicked")
              /\ UNCHANGED peers
         ELSE /\ peers' = [peers EXCEPT ![arg[t]].stop = CloseChan(peers[arg[t]].stop)]
              /\ Goto(t, arg[t], "stop_wait_stopping")
              /\ UNCHANGED panic
    /\ UNCHANGED <<isClosed, isUp, indexTable>>

\* Variant of StopWaitStopping that does not wait for the routines to exit.
StopWaitStoppingNoWait(t) ==
    /\ pc[t] = "stop_wait_stopping"
    /\ Goto(t, arg[t], "stop_close_queues")
    /\ UNCHANGED <<isClosed, isUp, peers, indexTable, panic>>

\* Line 287: peer.routines.stopping.Wait()
StopWaitStopping(t) ==
    /\ pc[t] = "stop_wait_stopping"
    /\ peers[arg[t]].stopping = 0
    /\ Goto(t, arg[t], "stop_close_queues")
    /\ UNCHANGED <<isClosed, isUp, peers, indexTable, panic>>

\* Lines 291-293: close the nonce, outbound and inbound queues.
StopCloseQueues(t) ==
    /\ pc[t] = "stop_close_queues"
    /\ LET q == peers[arg[t]].queue IN
       IF ClosePanics(q.nonce) \/ ClosePanics(q.outbound) \/ ClosePanics(q.inbound)
         THEN /\ panic' = "close of nil or closed channel"
              /\ Goto(t, arg[t], "panicked")
              /\ UNCHANGED peers
         ELSE /\ peers' = [peers EXCEPT ![arg[t]].queue =
                              [nonce    |-> CloseChan(q.nonce),
                               outbound |-> CloseChan(q.outbound),
                               inbound  |-> CloseChan(q.inbound)]]
              /\ Goto(t, arg[t], "stop_zero")
              /\ UNCHANGED panic
    /\ UNCHANGED <<isClosed, isUp, indexTable>>

\* Line 295, peer.ZeroAndFlushAll(): its section under keypairs.Lock(), lines
\* 228-235.
StopZero(t) ==
    /\ pc[t] = "stop_zero"
    /\ peers' = [peers EXCEPT ![arg[t]] = ZeroedKeypairs(peers[arg[t]])]
    /\ indexTable' = ZeroedIndexTable(peers[arg[t]], indexTable)
    /\ Goto(t, arg[t], "stop_zero_handshake")
    /\ UNCHANGED <<isClosed, isUp, panic>>

\* Line 295, peer.ZeroAndFlushAll(): its FlushNonceQueue, line 245.
StopZeroFlush(t) ==
    /\ pc[t] = "stop_zero_flush"
    /\ peers' = [peers EXCEPT ![arg[t]] = FlushNonceQueue(peers[arg[t]])]
    /\ Goto(t, arg[t], "stop_unlock")
    /\ UNCHANGED <<isClosed, isUp, indexTable, panic>>

\* Line 296: Stop returns and the deferred routines.Unlock() of line 278 runs.
StopUnlock(t) ==
    /\ pc[t] = "stop_unlock"
    /\ peers' = [peers EXCEPT ![arg[t]].rlock = None]
    /\ Return(t, "Stop", arg[t], "returned")
    /\ UNCHANGED <<isClosed, isUp, indexTable, panic>>

-----------------------------------------------------------------------------
(* Device.NewPeer, lines 80-142.  isClosed is read before any lock is       *)
(* taken; device.peers.Lock() is held from line 91 to the return, so that   *)
(* NewPeer calls take turns from there and no other goroutine reaches the   *)
(* new peer before the return; isUp is read at line 137, and the Start of   *)
(* line 138 reads isClosed again and waits for the three routines.  The     *)
(* device flags change between these steps.                                 *)

\* Lines 82-84: the isClosed check that opens NewPeer.
NewPeer(t, k) ==
    /\ pc[t] = "idle"
    /\ IF isClosed
         THEN Return(t, "NewPeer", k, "device closed")
         ELSE Goto(t, k, "newpeer_lock")
    /\ UNCHANGED <<isClosed, isUp, peers, indexTable, panic>>

\* Variant of NewPeerError whose limit check is off by one (> for >=).
NewPeerErrorOffByOne(k) ==
    IF Cardinality(KeyMap) > MaxPeers THEN "too many peers"
    ELSE IF Exists(k) THEN "adding existing peer"
    ELSE "nil"

\* Variant of NewPeerError without the lookup of lines 112-115.
NewPeerErrorNoLookup(k) ==
    IF Cardinality(KeyMap) >= MaxPeers THEN "too many peers"
    ELSE "nil"

\* Lines 96-98 and 112-115: the error NewPeer returns under the lock, if any.
NewPeerError(k) ==
    IF Cardinality(KeyMap) >= MaxPeers THEN "too many peers"
    ELSE IF Exists(k) THEN "adding existing peer"
    ELSE "nil"

\* Lines 88-133: device.peers.Lock() is taken once no other NewPeer holds it;
\* the limit and the map are checked, and the new peer is put in the map.  A
\* return with an error releases the lock.
NewPeerLock(t) ==
    /\ pc[t] = "newpeer_lock"
    /\ \A u \in Threads : pc[u] \notin NewPeerLabels
    /\ IF NewPeerError(arg[t]) = "nil"
         THEN /\ peers' = [peers EXCEPT ![arg[t]] = FreshPeer(arg[t])]
              /\ Goto(t, arg[t], "newpeer_is_up")
         ELSE /\ UNCHANGED peers
              /\ Return(t, "NewPeer", arg[t], NewPeerError(arg[t]))
    /\ UNCHANGED <<isClosed, isUp, indexTable, panic>>

\* Lines 137-141: isUp is read; the peer of a device that is down is returned
\* as it is.
NewPeerIsUp(t) ==
    /\ pc[t] = "newpeer_is_up"
    /\ IF isUp
         THEN Goto(t, arg[t], "newpeer_start")
         ELSE Return(t, "NewPeer", arg[t], "nil")
    /\ UNCHANGED <<isClosed, isUp, peers, indexTable, panic>>

\* Line 138, peer.Start(), lines 173-215: on a closed device Start returns
\* its error, which NewPeer drops (line 141).  Otherwise it takes
\* routines.Lock(), finds the new peer not running and both WaitGroups at
\* zero, and resets the routine state.
NewPeerStart(t) ==
    /\ pc[t] = "newpeer_start"
    /\ IF isClosed
         THEN /\ UNCHANGED peers
              /\ Return(t, "NewPeer", arg[t], "nil")
         ELSE /\ peers' = [peers EXCEPT ![arg[t]] =
                             [ResetRoutineState(peers[arg[t]]) EXCEPT !.rlock = t]]
              /\ Goto(t, arg[t], "newpeer_started")
    /\ UNCHANGED <<isClosed, isUp, indexTable, panic>>

\* Lines 217-219 of the Start of line 138, and line 141: the routines have
\* started, isRunning is set, the locks are released and NewPeer returns.
NewPeerStarted(t) ==
    /\ pc[t] = "newpeer_started"
    /\ peers[arg[t]].starting = 0
    /\ peers' = [peers EXCEPT ![arg[t]].isRunning = TRUE, ![arg[t]].rlock = None]
    /\ Return(t, "NewPeer", arg[t], "nil")
    /\ UNCHANGED <<isClosed, isUp, indexTable, panic>>

-----------------------------------------------------------------------------
(* Peer.SendBuffer, lines 144-164, and Peer.SetEndpointAddress, lines       *)
(* 300-317.  SendBuffer runs under the read locks of device.net and of the  *)
(* peer, SetEndpointAddress under the peer's write lock: each is one step.  *)

\* The peer's endpoint is set from the configuration.
ConfigureEndpoint(k, a) ==
    /\ Reachable(k)
    /\ peers[k].endpoint # a
    /\ peers' = [peers EXCEPT ![k].endpoint = a]
    /\ UNCHANGED <<isClosed, isUp, indexTable, pc, arg, panic>>
    /\ event' = NoEvent
    /\ UNCHANGED otherVars

\* Lines 148-158 of SendBuffer: what the call returns, given what bind.Send
\* would return.
SendBufferError(p, sendErr) ==
    IF bind = None THEN "no bind"
    ELSE IF p.endpoint = None THEN "no known endpoint for peer"
    ELSE sendErr

\* Variant of SentBytes that counts the buffer whatever Send returned (the
\* test of line 160 missing).
SentBytesAlways(p, n, err) ==
    IF err \in {"no bind", "no known endpoint for peer"}
      THEN p.stats.txBytes
      ELSE p.stats.txBytes + n

\* Lines 160-162: txBytes after the call.
SentBytes(p, n, err) ==
    IF err = "nil" THEN p.stats.txBytes + n ELSE p.stats.txBytes

\* SendBuffer on a buffer of n bytes; sendErr is what bind.Send returns when
\* it is called.
SendBuffer(t, k, n, sendErr) ==
    /\ pc[t] = "idle"
    /\ Reachable(k)
    /\ peers[k].stats.txBytes + n <= MaxTxBytes
    /\ LET err == SendBufferError(peers[k], sendErr) IN
       /\ peers' = [peers EXCEPT ![k].stats.txBytes = SentBytes(peers[k], n, err)]
       /\ event' = [thread |-> t, call |-> "SendBuffer", peer |-> k, result |-> err,
                    len |-> n, sendErr |-> sendErr]
    /\ UNCHANGED <<isClosed, isUp, indexTable, pc, arg, panic>>
    /\ UNCHANGED otherVars

\* Lines 301-308: the call returns without touching the peer.
SetEndpointAddressSkips(a) ==
    RoamingDisabled \/ allowedips[a] # 0

\* Lines 310-315: the endpoint after the section under peer.Lock(); updateErr
\* is what endpoint.UpdateDst returns when it is called.
UpdatedEndpoint(p, a, updateErr) ==
    IF p.endpoint # None /\ updateErr = "nil" THEN a ELSE p.endpoint

SetEndpointAddress(t, k, a, updateErr) ==
    /\ pc[t] = "idle"
    /\ Reachable(k)
    /\ peers' = [peers EXCEPT ![k].endpoint =
                    IF SetEndpointAddressSkips(a)
                      THEN peers[k].endpoint
                      ELSE UpdatedEndpoint(peers[k], a, updateErr)]
    /\ event' = [thread |-> t, call |-> "SetEndpointAddress", peer |-> k,
                 result |-> "returned", addr |-> a]
    /\ UNCHANGED <<isClosed, isUp, indexTable, pc, arg, panic>>
    /\ UNCHANGED otherVars

-----------------------------------------------------------------------------
(* The handshake and keypair rotation, which fill the state ZeroAndFlushAll *)
(* clears: an initiation takes a free local index for the handshake; the    *)
(* completed handshake becomes the next keypair under that index; the first *)
(* use of the next keypair rotates next -> current -> previous.  They are   *)
(* driven by the peer's routines, so they act while a routine is running,   *)
(* and they find the peer in the device's maps under device.peers.RLock(),  *)
(* so they act on a peer only after the NewPeer that made it has returned.  *)

HandshakeInitiate(k, i) ==
    /\ Reachable(k) /\ PeerActive(k)
    /\ peers[k].handshake.state = "zeroed"
    /\ i \notin indexTable
    /\ peers' = [peers EXCEPT ![k].handshake.state = "initiated",
                              ![k].handshake.localIndex = i]
    /\ indexTable' = indexTable \cup {i}
    /\ UNCHANGED <<isClosed, isUp, pc, arg, panic>>
    /\ event' = NoEvent
    /\ UNCHANGED otherVars

HandshakeComplete(k) ==
    /\ Reachable(k) /\ PeerActive(k)
    /\ peers[k].handshake.state = "initiated"
    /\ peers' = [peers EXCEPT
                   ![k].keypairs.next = [localIndex |-> peers[k].handshake.localIndex,
                                         sendNonce  |-> 0],
                   ![k].handshake = ClearedHandshake(peers[k].handshake)]
    /\ indexTable' = DeleteKeypair(peers[k].keypairs.next, indexTable)
    /\ UNCHANGED <<isClosed, isUp, pc, arg, panic>>
    /\ event' = NoEvent
    /\ UNCHANGED otherVars

KeypairFirstUse(k) ==
    /\ Reachable(k) /\ PeerActive(k)
    /\ peers[k].keypairs.next # NoKeypair
    /\ peers' = [peers EXCEPT
                   ![k].keypairs = [previous |-> peers[k].keypairs.current,
                                    current  |-> peers[k].keypairs.next,
                                    next     |-> NoKeypair]]
    /\ indexTable' = DeleteKeypair(peers[k].keypairs.previous, indexTable)
    /\ UNCHANGED <<isClosed, isUp, pc, arg, panic>>
    /\ event' = NoEvent
    /\ UNCHANGED otherVars

\* A packet is sent on the current keypair: the send nonce is taken and
\* incremented.  A keypair whose nonce has reached RejectAfterMessages sends
\* nothing.
KeypairSend(k) ==
    /\ Reachable(k) /\ PeerActive(k)
    /\ peers[k].keypairs.current # NoKeypair
    /\ peers[k].keypairs.current.sendNonce < RejectAfterMessages
    /\ peers' = [peers EXCEPT
                   ![k].keypairs.current.sendNonce = peers[k].keypairs.current.sendNonce + 1]
    /\ UNCHANGED <<isClosed, isUp, indexTable, pc, arg, panic>>
    /\ event' = NoEvent
    /\ UNCHANGED otherVars

-----------------------------------------------------------------------------
(* Spec: two goroutines call NewPeer, Start, Stop and ZeroAndFlushAll on    *)
(* one peer, in any interleaving.                                           *)

Next ==
    \/ DeviceUp
    \/ DeviceDown
    \/ DeviceClose
    \/ \E t \in Threads, k \in LifecycleKeys : NewPeer(t, k)
    \/ \E t \in Threads : NewPeerLock(t)
    \/ \E t \in Threads : NewPeerIsUp(t)
    \/ \E t \in Threads : NewPeerStart(t)
    \/ \E t \in Threads : NewPeerStarted(t)
    \/ \E t \in Threads, k \in LifecycleKeys : StartCheckClosed(t, k)
    \/ \E t \in Threads : StartLock(t)
    \/ \E t \in Threads : StartCheckRunning(t)
    \/ \E t \in Threads : StartWaitStarting(t)
    \/ \E t \in Threads : StartWaitStopping(t)
    \/ \E t \in Threads : StartReset(t)
    \/ \E t \in Threads : StartWaitStarted(t)
    \/ \E t \in Threads : StartSetRunning(t)
    \/ \E t \in Threads, k \in LifecycleKeys : StopSwap(t, k)
    \/ \E t \in Threads : StopWaitStarting(t)
    \/ \E t \in Threads : StopLock(t)
    \/ \E t \in Threads : StopTimers(t)
    \/ \E t \in Threads : StopCloseStop(t)
    \/ \E t \in Threads : StopWaitStopping(t)
    \/ \E t \in Threads : StopCloseQueues(t)
    \/ \E t \in Threads : StopZero(t)
    \/ \E t \in Threads : StopZeroFlush(t)
    \/ \E t \in Threads : StopUnlock(t)
    \/ \E t \in Threads, k \in LifecycleKeys : ZeroAndFlushAll(t, k)
    \/ \E t \in Threads : ZeroHandshake(t)
    \/ \E t \in Threads : ZeroFlush(t)
    \/ \E k \in LifecycleKeys, r \in Routines : RoutineStarted(k, r)
    \/ \E k \in LifecycleKeys, r \in Routines : RoutineExit(k, r)
    \/ \E k \in LifecycleKeys : RoutineNonceFlush(k)
    \/ \E k \in LifecycleKeys, i \in Indices : HandshakeInitiate(k, i)
    \/ \E k \in LifecycleKeys : HandshakeComplete(k)
    \/ \E k \in LifecycleKeys : KeypairFirstUse(k)

Spec == Init /\ [][Next]_vars

-----------------------------------------------------------------------------
(* SpecDevice: one goroutine makes NewPeer, Start and Stop calls on every   *)
(* key, so that the peer map fills up to the limit with peers in different  *)
(* states.                                                                  *)

NextDevice ==
    \/ DeviceUp
    \/ DeviceDown
    \/ DeviceClose
    \/ \E k \in Keys : NewPeer(MainThread, k)
    \/ NewPeerLock(MainThread)
    \/ NewPeerIsUp(MainThread)
    \/ NewPeerStart(MainThread)
    \/ NewPeerStarted(MainThread)
    \/ \E k \in Keys : StartCheckClosed(MainThread, k)
    \/ StartLock(MainThread)
    \/ StartCheckRunning(MainThread)
    \/ StartWaitStarting(MainThread)
    \/ StartWaitStopping(MainThread)
    \/ StartReset(MainThread)
    \/ StartWaitStarted(MainThread)
    \/ StartSetRunning(MainThread)
    \/ \E k \in Keys : StopSwap(MainThread, k)
    \/ StopWaitStarting(MainThread)
    \/ StopLock(MainThread)
    \/ StopTimers(MainThread)
    \/ StopCloseStop(MainThread)
    \/ StopWaitStopping(MainThread)
    \/ StopCloseQueues(MainThread)
    \/ StopZero(MainThread)
    \/ ZeroHandshake(MainThread)
    \/ StopZeroFlush(MainThread)
    \/ StopUnlock(MainThread)
    \/ \E k \in Keys, r \in Routines : RoutineStarted(k, r)
    \/ \E k \in Keys, r \in Routines : RoutineExit(k, r)
    \/ \E k \in Keys, i \in DeviceIndices : HandshakeInitiate(k, i)
    \/ \E k \in Keys : HandshakeComplete(k)

SpecDevice == Init /\ [][NextDevice]_vars

-----------------------------------------------------------------------------
(* SpecKeys: one goroutine makes NewPeer, Start, Stop, ZeroAndFlushAll and  *)
(* ExpireCurrentKeypairs calls on one peer while the peer's routines run    *)
(* handshakes, rotate the keypairs and send on them.                        *)

NextKeys ==
    \/ DeviceUp
    \/ \E k \in LifecycleKeys : NewPeer(MainThread, k)
    \/ NewPeerLock(MainThread)
    \/ NewPeerIsUp(MainThread)
    \/ NewPeerStart(MainThread)
    \/ NewPeerStarted(MainThread)
    \/ \E k \in LifecycleKeys : StartCheckClosed(MainThread, k)
    \/ StartLock(MainThread)
    \/ StartCheckRunning(MainThread)
    \/ StartWaitStarting(MainThread)
    \/ StartWaitStopping(MainThread)
    \/ StartReset(MainThread)
    \/ StartWaitStarted(MainThread)
    \/ StartSetRunning(MainThread)
    \/ \E k \in LifecycleKeys : StopSwap(MainThread, k)
    \/ StopWaitStarting(MainThread)
    \/ StopLock(MainThread)
    \/ StopTimers(MainThread)
    \/ StopCloseStop(MainThread)
    \/ StopWaitStopping(MainThread)
    \/ StopCloseQueues(MainThread)
    \/ StopZero(MainThread)
    \/ StopZeroFlush(MainThread)
    \/ StopUnlock(MainThread)
    \/ \E k \in LifecycleKeys : ZeroAndFlushAll(MainThread, k)
    \/ ZeroHandshake(MainThread)
    \/ ZeroFlush(MainThread)
    \/ \E k \in LifecycleKeys : ExpireHandshake(MainThread, k)
    \/ ExpireStamp(MainThread)
    \/ ExpireKeypairs(MainThread)
    \/ \E k \in LifecycleKeys, r \in Routines : RoutineStarted(k, r)
    \/ \E k \in LifecycleKeys, r \in Routines : RoutineExit(k, r)
    \/ \E k \in LifecycleKeys, i \in Indices : HandshakeInitiate(k, i)
    \/ \E k \in LifecycleKeys : HandshakeComplete(k)
    \/ \E k \in LifecycleKeys : KeypairFirstUse(k)
    \/ \E k \in LifecycleKeys : KeypairSend(k)

SpecKeys == Init /\ [][NextKeys]_vars

-----------------------------------------------------------------------------
(* SpecNet: SendBuffer and SetEndpointAddress calls on the peers of a       *)
(* device with any bind, roaming setting and allowed-IP table.              *)

\* The peers of SpecNet: one and another.
NetKeys == {1, 2}

\* What bind.Send and endpoint.UpdateDst return.
Errors == {"nil", "error"}

InitNet ==
    /\ DeviceInit
    /\ LockInit
    /\ BindInit
    /\ EndpointInit
    /\ UapiInit
    /\ StampInit
    /\ bind \in {None, "bind"}
    /\ RoamingDisabled \in BOOLEAN
    /\ allowedips \in [Addrs -> {0} \cup NetKeys]

NextNet ==
    \/ \E k \in NetKeys : NewPeer(MainThread, k)
    \/ NewPeerLock(MainThread)
    \/ NewPeerIsUp(MainThread)
    \/ \E k \in NetKeys, a \in Addrs : ConfigureEndpoint(k, a)
    \/ \E k \in NetKeys, n \in 0..MaxBuffer, e \in Errors :
           SendBuffer(MainThread, k, n, e)
    \/ \E k \in NetKeys, a \in Addrs, e \in Errors :
           SetEndpointAddress(MainThread, k, a, e)

SpecNet == InitNet /\ [][NextNet]_vars

-----------------------------------------------------------------------------
(* wgcfg: parseEndpoint and parsePort.  A string is a sequence of           *)
(* one-character strings; indices are Go's, counted from 0, with -1 for     *)
(* "not found".                                                             *)

Digits == <<"0", "1", "2", "3", "4", "5", "6", "7", "8", "9">>

IsDigit(c) == \E d \in 1..10 : Digits[d] = c

DigitValue(c) == (CHOOSE d \in 1..10 : Digits[d] = c) - 1

\* s[i] of Go.
At(s, i) == s[i + 1]

\* s[a:b] of Go.
Slice(s, a, b) == SubSeq(s, a + 1, b)

\* A local variable: F of the value v, which is computed once.
With(v, F(_)) == F(v)

\* strings.IndexByte(s, c)
IndexByte(s, c) ==
    IF \E i \in 1..Len(s) : s[i] = c
      THEN (CHOOSE i \in 1..Len(s) : s[i] = c /\ \A j \in 1..(i - 1) : s[j] # c) - 1
      ELSE -1

\* strings.LastIndexByte(s, c)
LastIndexByte(s, c) ==
    IF \E i \in 1..Len(s) : s[i] = c
      THEN (CHOOSE i \in 1..Len(s) : s[i] = c /\ \A j \in (i + 1)..Len(s) : s[j] # c) - 1
      ELSE -1

\* The value of a string of decimal digits.
RECURSIVE DecimalValue(_)
DecimalValue(s) ==
    IF s = <<>> THEN 0
    ELSE 10 * DecimalValue(SubSeq(s, 1, Len(s) - 1)) + DigitValue(s[Len(s)])

\* A string of digits without its leading zeros (the last digit is kept).
RECURSIVE TrimZeros(_)
TrimZeros(s) ==
    IF Len(s) > 1 /\ s[1] = "0" THEN TrimZeros(Tail(s)) ELSE s

\* a and b are strings of decimal digits, and the value of a is greater than
\* that of b.
DecimalGreater(a, b) ==
    LET x == TrimZeros(a)
        y == TrimZeros(b) IN
    \/ Len(x) > Len(y)
    \/ /\ Len(x) = Len(y)
       /\ \E i \in 1..Len(x) :
              /\ DigitValue(x[i]) > DigitValue(y[i])
              /\ \A j \in 1..(i - 1) : x[j] = y[j]

\* 2^16 - 1, 2^63 - 1, 2^63 and 2^64 - 1 in decimal digits: the largest
\* uint16, the largest int, the magnitude of the smallest int and the largest
\* uint64 (an int has 64 bits).
MaxUint16 == <<"6", "5", "5", "3", "5">>

MaxInt64 ==
    <<"9", "2", "2", "3", "3", "7", "2", "0", "3", "6",
      "8", "5", "4", "7", "7", "5", "8", "0", "7">>

MinInt64 ==
    <<"9", "2", "2", "3", "3", "7", "2", "0", "3", "6",
      "8", "5", "4", "7", "7", "5", "8", "0", "8">>

MaxUint64 ==
    <<"1", "8", "4", "4", "6", "7", "4", "4", "0", "7",
      "3", "7", "0", "9", "5", "5", "1", "6", "1", "5">>

\* strconv.ParseUint(s, 10, bitSize), max being 2^bitSize - 1: the characters
\* are read from the left; the first that is no digit ends the call with a
\* syntax error, and the first digit that takes the value above max ends it
\* with a range error and the value max.  The value is given by its digits.
ParseUint(s, max) ==
    LET nondigit == {i \in 1..Len(s) : ~IsDigit(s[i])}
        n == IF nondigit = {} THEN Len(s) + 1
             ELSE CHOOSE i \in nondigit : \A j \in nondigit : i <= j
        over == {i \in 1..(n - 1) : DecimalGreater(SubSeq(s, 1, i), max)} IN
    IF s = <<>> THEN [digits |-> <<"0">>, err |-> "invalid syntax"]
    ELSE IF over # {} THEN [digits |-> max, err |-> "value out of range"]
    ELSE IF n <= Len(s) THEN [digits |-> <<"0">>, err |-> "invalid syntax"]
    ELSE [digits |-> TrimZeros(s), err |-> "nil"]

\* An int: its sign and the decimal digits of its magnitude.
IntOf(neg, digits) == [neg |-> neg /\ digits # <<"0">>, digits |-> digits]

\* strconv.Atoi(s): an optional sign and one or more decimal digits, of a
\* value that an int holds.  On a range error the value is the nearest int.
Atoi(s) ==
    With(ParseUint(IF s # <<>> /\ s[1] \in {"+", "-"} THEN Tail(s) ELSE s, MaxUint64),
         LAMBDA un :
           LET neg == s # <<>> /\ s[1] = "-" IN
           IF un.err = "invalid syntax"
             THEN [val |-> IntOf(FALSE, <<"0">>), err |-> "invalid syntax"]
           ELSE IF DecimalGreater(un.digits, IF neg THEN MinInt64 ELSE MaxInt64)
             THEN [val |-> IntOf(neg, IF neg THEN MinInt64 ELSE MaxInt64),
                   err |-> "value out of range"]
           ELSE [val |-> IntOf(neg, un.digits), err |-> "nil"])

\* parsePort, lines 69-78
parsePort(s) ==
    With(Atoi(s),
         LAMBDA m :
           IF m.err # "nil" THEN [port |-> 0, err |-> m.err]
           ELSE IF m.val.neg \/ DecimalGreater(m.val.digits, MaxUint16)
             THEN [port |-> 0, err |-> "Invalid port"]
           ELSE [port |-> DecimalValue(m.val.digits), err |-> "nil"])

HexDigits == {"0", "1", "2", "3", "4", "5", "6", "7", "8", "9",
              "a", "b", "c", "d", "e", "f", "A", "B", "C", "D", "E", "F"}

HexValue(c) ==
    IF IsDigit(c) THEN DigitValue(c)
    ELSE CASE c \in {"a", "A"} -> 10 [] c \in {"b", "B"} -> 11
           [] c \in {"c", "C"} -> 12 [] c \in {"d", "D"} -> 13
           [] c \in {"e", "E"} -> 14 [] c \in {"f", "F"} -> 15

\* The number of hexadecimal digits s begins with.
RECURSIVE HexPrefixLen(_)
HexPrefixLen(s) ==
    IF s = <<>> \/ s[1] \notin HexDigits THEN 0 ELSE 1 + HexPrefixLen(Tail(s))

\* The value of a string of at most four hexadecimal digits.
RECURSIVE HexGroupValue(_)
HexGroupValue(s) ==
    IF s = <<>> THEN 0
    ELSE 16 * HexGroupValue(SubSeq(s, 1, Len(s) - 1)) + HexValue(s[Len(s)])

\* strings.Split(v, sep)
RECURSIVE Split(_, _)
Split(v, sep) ==
    LET i == IndexByte(v, sep) IN
    IF i < 0 THEN <<v>>
    ELSE <<Slice(v, 0, i)>> \o Split(Slice(v, i + 1, Len(v)), sep)

\* What net.ParseIP accepts has changed with the releases of Go.  The parser
\* of the first releases reads the fields of an address as numbers, whatever
\* the number of their digits; later it rejects an IPv4 field with a leading
\* zero; the parser of package netip rejects, besides, a group of more than
\* four hexadecimal digits.  The program behaves as one of the three.
Parsers == {"numbers", "no leading zero", "netip"}

\* No address: net.ParseIP returns nil.
NoIP == [ok |-> FALSE, is4 |-> FALSE, ip |-> <<>>]

\* One decimal field of an IPv4 address.
IPv4Field(f, go) ==
    /\ f # <<>>
    /\ \A i \in 1..Len(f) : IsDigit(f[i])
    /\ go = "numbers" \/ f = TrimZeros(f)
    /\ Len(TrimZeros(f)) <= 3
    /\ DecimalValue(TrimZeros(f)) <= 255

\* The four bytes of a dotted IPv4 address: four decimal fields, each at most
\* 255, separated by '.'.
parseIPv4(s, go) ==
    With(Split(s, "."),
         LAMBDA fields :
           IF Len(fields) = 4 /\ \A i \in 1..4 : IPv4Field(fields[i], go)
             THEN [ok |-> TRUE, is4 |-> TRUE,
                   ip |-> [i \in 1..4 |-> DecimalValue(TrimZeros(fields[i]))]]
             ELSE NoIP)

\* The end of the IPv6 parse: nothing is left over, and the "::" stands for
\* at least one group, of which it takes the place in the sixteen bytes.
IPv6End(s, ip, ellipsis) ==
    IF s # <<>> THEN NoIP
    ELSE IF Len(ip) < 16
      THEN IF ellipsis < 0 THEN NoIP
           ELSE [ok |-> TRUE, is4 |-> FALSE,
                 ip |-> SubSeq(ip, 1, ellipsis)
                          \o [i \in 1..(16 - Len(ip)) |-> 0]
                          \o SubSeq(ip, ellipsis + 1, Len(ip))]
    ELSE IF ellipsis >= 0 THEN NoIP
    ELSE [ok |-> TRUE, is4 |-> FALSE, ip |-> ip]

\* The group loop of the IPv6 parse: groups of hexadecimal digits separated
\* by ':', with at most one "::", and a dotted IPv4 address in the place of
\* the last two groups.  ip holds the bytes read so far, ellipsis the place
\* of the "::" in them (-1 when there is none yet).
RECURSIVE IPv6Groups(_, _, _, _)
IPv6Groups(s, ip, ellipsis, go) ==
    IF Len(ip) >= 16 THEN IPv6End(s, ip, ellipsis)
    ELSE
    With(HexPrefixLen(s),
         LAMBDA c :
           LET digits == TrimZeros(SubSeq(s, 1, c))
               s1 == SubSeq(s, c + 1, Len(s)) IN
           IF c = 0 \/ Len(digits) > 4 \/ (go = "netip" /\ c > 4) THEN NoIP
           ELSE IF s1 # <<>> /\ s1[1] = "."
             THEN IF (ellipsis < 0 /\ Len(ip) # 12) \/ Len(ip) + 4 > 16 THEN NoIP
                  ELSE With(parseIPv4(s, go),
                            LAMBDA ip4 : IF ip4.ok
                                           THEN IPv6End(<<>>, ip \o ip4.ip, ellipsis)
                                           ELSE NoIP)
           ELSE
           With(HexGroupValue(digits),
                LAMBDA n :
                  LET ip1 == ip \o <<n \div 256, n % 256>> IN
                  IF s1 = <<>> THEN IPv6End(s1, ip1, ellipsis)
                  ELSE IF s1[1] # ":" \/ Len(s1) = 1 THEN NoIP
                  ELSE IF s1[2] # ":" THEN IPv6Groups(Tail(s1), ip1, ellipsis, go)
                  ELSE IF ellipsis >= 0 THEN NoIP
                  ELSE IF Len(s1) = 2 THEN IPv6End(<<>>, ip1, Len(ip1))
                  ELSE IPv6Groups(SubSeq(s1, 3, Len(s1)), ip1, Len(ip1), go)))

\* The sixteen bytes of an IPv6 address.
parseIPv6(s, go) ==
    IF Len(s) >= 2 /\ s[1] = ":" /\ s[2] = ":"
      THEN IF Len(s) = 2 THEN IPv6End(<<>>, <<>>, 0)
           ELSE IPv6Groups(SubSeq(s, 3, Len(s)), <<>>, 0, go)
      ELSE IPv6Groups(s, <<>>, -1, go)

\* net.ParseIP(s): the first '.' or ':' of s tells the kind of the address;
\* an IPv4 address is returned in sixteen bytes too, after the prefix
\* 0:0:0:0:0:ffff.
ParseIP(s, go) ==
    LET kind == {i \in 1..Len(s) : s[i] \in {".", ":"}} IN
    IF kind = {} THEN NoIP
    ELSE IF s[CHOOSE i \in kind : \A j \in kind : i <= j] = "."
      THEN With(parseIPv4(s, go),
                LAMBDA v4 :
                  IF v4.ok
                    THEN [v4 EXCEPT !.ip = <<0, 0, 0, 0, 0, 0, 0, 0, 0, 0, 255, 255>> \o v4.ip]
                    ELSE NoIP)
      ELSE parseIPv6(s, go)

\* len(net.IP), and net.IPv6len.
IPv6len == 16

EndpointError(why) == [host |-> <<>>, port |-> 0, err |-> why]

\* parseEndpoint, lines 40-67
parseEndpoint(s, go) ==
    LET i == LastIndexByte(s, ":") IN
    IF i < 0 THEN EndpointError("Missing port from endpoint")
    ELSE
    LET host == Slice(s, 0, i)
        portStr == Slice(s, i + 1, Len(s)) IN
    IF Len(host) < 1 THEN EndpointError("Invalid endpoint host")
    ELSE
    With(parsePort(portStr),
         LAMBDA p :
           LET hostColon == IndexByte(host, ":") IN
           IF p.err # "nil" THEN EndpointError(p.err)
           ELSE IF At(host, 0) = "[" \/ At(host, Len(host) - 1) = "]" \/ hostColon > 0
             THEN IF /\ Len(host) > 3
                     /\ At(host, 0) = "["
                     /\ At(host, Len(host) - 1) = "]"
                     /\ hostColon > 0
                     /\ With(ParseIP(Slice(host, 1, Len(host) - 1), go),
                             LAMBDA maybeV6 : maybeV6.ok /\ Len(maybeV6.ip) = IPv6len)
                    THEN [host |-> Slice(host, 1, Len(host) - 1), port |-> p.port,
                          err |-> "nil"]
                    ELSE EndpointError("Brackets must contain an IPv6 address")
             ELSE [host |-> host, port |-> p.port, err |-> "nil"])

\* A call of parseEndpoint.
ParseEndpointCall(go) ==
    /\ endpointRet = NotCalled
    /\ endpointRet' = parseEndpoint(endpointArg, go)
    /\ UNCHANGED <<deviceVars, netVars, uapiVars, stampVars, lockVars, bindVars, endpointArg>>

\* The characters hosts are made of: brackets, the colon, a hexadecimal
\* digit and a letter that is none.
HostChars == {"[", "]", ":", "1", "x"}

\* The hosts of at most max characters, and hosts with dotted addresses and
\* with leading zeros.
Hosts(max) ==
    UNION {[1..n -> HostChars] : n \in 0..max}
        \cup {<<"1", ".", "2", ".", "3", ".", "4">>,
              <<"[", "1", ".", "2", ".", "3", ".", "4", "]">>,
              <<"[", ":", ":", "1", ".", "2", ".", "3", ".", "4", "]">>,
              <<"[", ":", ":", "f", "f", "f", "f", ":", "1", ".", "2", ".", "3", ".", "4", "]">>,
              <<"[", "1", ":", "2", ":", "3", ":", "4", ":", "5", ":", "6", ":",
                "1", ".", "2", ".", "3", ".", "4", "]">>,
              <<"[", "1", ":", "1", ".", "2", ".", "3", ".", "4", "]">>,
              <<"[", ":", ":", "1", ".", "2", ".", "3", ".", "2", "5", "6", "]">>,
              <<"[", ":", ":", "0", "1", ".", "2", ".", "3", ".", "4", "]">>,
              <<"[", ":", ":", "0", "0", "0", "0", "1", "]">>,
              <<"[", "1", "f", "f", "f", "f", ":", ":", "]">>}

PortStrings ==
    {<<>>, <<"0">>, <<"1">>, <<"8", "0">>, <<"-", "1">>, <<"8", "x">>,
     <<"6", "5", "5", "3", "5">>, <<"6", "5", "5", "3", "6">>,
     <<"+", "0", "8", "0">>, <<"-", "0">>,
     MaxInt64, MinInt64, <<"-">> \o MinInt64, MaxUint64 \o <<"0", "x">>}

\* host:port for every host and port string, and the hosts without a colon
\* on their own.
EndpointStrings(max) ==
    {h \o <<":">> \o p : h \in Hosts(max), p \in PortStrings}
        \cup {h \in Hosts(max) : IndexByte(h, ":") < 0}

InitEndpoint ==
    /\ DeviceInit
    /\ LockInit
    /\ BindInit
    /\ NetInit
    /\ UapiInit
    /\ StampInit
    /\ endpointArg \in EndpointStrings(MaxHost)
    /\ endpointRet = NotCalled

NextEndpoint ==
    \E go \in Parsers : ParseEndpointCall(go)

SpecEndpoint == InitEndpoint /\ [][NextEndpoint]_vars

-----------------------------------------------------------------------------
(* wgcfg: FromUAPI, lines 96-143, one step per line the scanner returns.    *)
(* A line is the sequence of its "="-separated parts: the key, a TLA+       *)
(* string, and the value, a sequence of characters.                         *)

\* Stand-in for KeySize, the number of bytes of a key (32).
KeySize == 1

\* parseKeyHex, lines 80-91: the bytes of the key, or an error.
parseKeyHex(v) ==
    IF Len(v) % 2 # 0 \/ \E i \in 1..Len(v) : v[i] \notin HexDigits
      THEN [key |-> <<>>, err |-> "Invalid key"]
    ELSE IF Len(v) \div 2 # KeySize
      THEN [key |-> <<>>, err |-> "Keys must decode to exactly 32 bytes"]
    ELSE [key |-> [b \in 1..KeySize |-> 16 * HexValue(v[2 * b - 1]) + HexValue(v[2 * b])],
          err |-> "nil"]

\* strconv.ParseUint(v, 10, 16)
ParseUint16(v) ==
    With(ParseUint(v, MaxUint16),
         LAMBDA u : [val |-> DecimalValue(u.digits), err |-> u.err])

\* validateEndpoints, lines 29-38: the error of the first endpoint that
\* parseEndpoint rejects.
validateEndpoints(v, go) ==
    With([i \in 1..Len(Split(v, ",")) |-> parseEndpoint(Split(v, ",")[i], go).err],
         LAMBDA errs :
           IF \A i \in 1..Len(errs) : errs[i] = "nil" THEN "nil"
           ELSE errs[CHOOSE i \in 1..Len(errs) :
                         errs[i] # "nil" /\ \A j \in 1..(i - 1) : errs[j] = "nil"])

\* The build of the program: the release of Go that net.ParseIP comes from,
\* and the release of package netaddr, of which ParseIP has been net's and
\* then a parser of its own, and of which ParseIPPrefix reads the number of
\* bits with strconv.Atoi, or with strconv.Atoi after it has rejected a sign
\* and a leading zero.
Builds == [go : Parsers, netaddr : Parsers, bits : {"Atoi", "digits"}]

\* netaddr.ParseIPPrefix(v): an IPv4 or IPv6 address, '/', and the number of
\* bits, at most 32 for an IPv4 address and 128 for an IPv6 address.  The
\* prefix is the address (four or sixteen bytes) and the number of bits.
ParseIPPrefix(v, build) ==
    LET i == LastIndexByte(v, "/")
        bitsStr == Slice(v, i + 1, Len(v))
        error == [ipp |-> <<>>, err |-> "invalid IP prefix"] IN
    IF i < 0 THEN error
    ELSE
    With(ParseIP(Slice(v, 0, i), build.netaddr),
         LAMBDA parsed :
           IF \/ ~parsed.ok
              \/ /\ build.bits = "digits"
                 /\ Len(bitsStr) > 1
                 /\ bitsStr[1] \notin {"1", "2", "3", "4", "5", "6", "7", "8", "9"}
             THEN error
             ELSE
             With(Atoi(bitsStr),
                  LAMBDA bits :
                    IF \/ bits.err # "nil"
                       \/ bits.val.neg
                       \/ DecimalGreater(bits.val.digits,
                                         IF parsed.is4 THEN <<"3", "2">>
                                                       ELSE <<"1", "2", "8">>)
                      THEN error
                      ELSE [ipp |-> [ip   |-> IF parsed.is4
                                                THEN SubSeq(parsed.ip, 13, 16)
                                                ELSE parsed.ip,
                                     bits |-> DecimalValue(bits.val.digits)],
                            err |-> "nil"]))

\* Config.handleDeviceLine, lines 145-166
handleDeviceLine(c, key, value) ==
    CASE key = "private_key" ->
           With(parseKeyHex(value),
                LAMBDA k :
                  IF k.err # "nil"
                    THEN [cfg |-> c, err |-> k.err]
                    ELSE [cfg |-> [c EXCEPT !.PrivateKey = k.key], err |-> "nil"])
      [] key = "listen_port" ->
           With(ParseUint16(value),
                LAMBDA port :
                  IF port.err # "nil"
                    THEN [cfg |-> c, err |-> "failed to parse listen_port"]
                    ELSE [cfg |-> [c EXCEPT !.ListenPort = port.val], err |-> "nil"])
      [] key = "fwmark" ->
           [cfg |-> c, err |-> "nil"]
      [] OTHER ->
           [cfg |-> c, err |-> "unexpected IpcGetOperation key"]

\* Config.handlePublicKeyLine, lines 168-177
handlePublicKeyLine(c, value) ==
    IF parseKeyHex(value).err # "nil"
      THEN [cfg |-> c, err |-> parseKeyHex(value).err]
      ELSE [cfg |-> [c EXCEPT !.Peers =
                        Append(c.Peers, [PublicKey           |-> parseKeyHex(value).key,
                                         Endpoints           |-> <<>>,
                                         PersistentKeepalive |-> 0,
                                         AllowedIPs          |-> <<>>])],
            err |-> "nil"]

\* Variant of handlePeerLine without the case of lines 203-204: the keys it
\* ignores fall to the default.
handlePeerLineNoIgnore(c, key, value, build) ==
    LET peer == Len(c.Peers) IN
    CASE key = "endpoint" ->
           With(validateEndpoints(value, build.go),
                LAMBDA err :
                  IF err # "nil"
                    THEN [cfg |-> c, err |-> err]
                    ELSE [cfg |-> [c EXCEPT !.Peers[peer].Endpoints = value],
                          err |-> "nil"])
      [] key = "persistent_keepalive_interval" ->
           With(ParseUint16(value),
                LAMBDA n :
                  IF n.err # "nil"
                    THEN [cfg |-> c, err |-> n.err]
                    ELSE [cfg |-> [c EXCEPT !.Peers[peer].PersistentKeepalive = n.val],
                          err |-> "nil"])
      [] key = "allowed_ip" ->
           With(ParseIPPrefix(value, build),
                LAMBDA p :
                  IF p.err # "nil"
                    THEN [cfg |-> c, err |-> p.err]
                    ELSE [cfg |-> [c EXCEPT !.Peers[peer].AllowedIPs =
                                               Append(c.Peers[peer].AllowedIPs, p.ipp)],
                          err |-> "nil"])
      [] key = "protocol_version" ->
           [cfg |-> c, err |-> IF value # <<"1">> THEN "invalid protocol version" ELSE "nil"]
      [] OTHER ->
           [cfg |-> c, err |-> "unexpected IpcGetOperation key"]

\* Config.handlePeerLine, lines 179-209; peer is the last element of c.Peers.
handlePeerLine(c, key, value, build) ==
    LET peer == Len(c.Peers) IN
    CASE key = "endpoint" ->
           With(validateEndpoints(value, build.go),
                LAMBDA err :
                  IF err # "nil"
                    THEN [cfg |-> c, err |-> err]
                    ELSE [cfg |-> [c EXCEPT !.Peers[peer].Endpoints = value],
                          err |-> "nil"])
      [] key = "persistent_keepalive_interval" ->
           With(ParseUint16(value),
                LAMBDA n :
                  IF n.err # "nil"
                    THEN [cfg |-> c, err |-> n.err]
                    ELSE [cfg |-> [c EXCEPT !.Peers[peer].PersistentKeepalive = n.val],
                          err |-> "nil"])
      [] key = "allowed_ip" ->
           With(ParseIPPrefix(value, build),
                LAMBDA p :
                  IF p.err # "nil"
                    THEN [cfg |-> c, err |-> p.err]
                    ELSE [cfg |-> [c EXCEPT !.Peers[peer].AllowedIPs =
                                               Append(c.Peers[peer].AllowedIPs, p.ipp)],
                          err |-> "nil"])
      [] key = "protocol_version" ->
           [cfg |-> c, err |-> IF value # <<"1">> THEN "invalid protocol version" ELSE "nil"]
      [] key \in {"preshared_key", "last_handshake_time_sec",
                  "last_handshake_time_nsec", "tx_bytes", "rx_bytes"} ->
           [cfg |-> c, err |-> "nil"]
      [] OTHER ->
           [cfg |-> c, err |-> "unexpected IpcGetOperation key"]

\* Lines 103-135: what one line does to the Config, and the error that ends
\* the call ("nil" when the loop goes on).
ScannedLine(c, dev, l, build) ==
    IF l = <<"">> THEN [cfg |-> c, err |-> "nil"]
    ELSE IF Len(l) # 2 THEN [cfg |-> c, err |-> "failed to parse line"]
    ELSE IF l[1] = "public_key" THEN handlePublicKeyLine(c, l[2])
    ELSE IF dev THEN handleDeviceLine(c, l[1], l[2])
    ELSE handlePeerLine(c, l[1], l[2], build)

\* scanner.Scan() returns the line l and the loop body runs on it.
ScanLine(l, build) ==
    /\ uapiErr = "scanning"
    /\ scanned < MaxLines
    /\ line' = l
    /\ scanned' = scanned + 1
    /\ \E r \in {ScannedLine(cfg, deviceConfig, l, build)} :
           /\ cfg' = r.cfg
           /\ uapiErr' = IF r.err = "nil" THEN "scanning" ELSE r.err
    /\ deviceConfig' = (deviceConfig /\ ~(Len(l) = 2 /\ l[1] = "public_key"))
    /\ UNCHANGED <<deviceVars, netVars, endpointVars, stampVars, lockVars, bindVars>>

\* What scanner.Err() returns when scanner.Scan() has returned false: nil at
\* the end of the input, the error of the reader, or bufio.ErrTooLong for a
\* line that does not fit the scanner's buffer.
ScannerErrors == {"nil", "read error", "bufio.Scanner: token too long"}

\* Lines 138-142: the scan has ended; FromUAPI returns the scanner's error,
\* or cfg, nil.
ScanEnd(err) ==
    /\ uapiErr = "scanning"
    /\ uapiErr' = err
    /\ UNCHANGED <<deviceVars, netVars, endpointVars, stampVars, lockVars, bindVars,
                   line, cfg, deviceConfig, scanned>>

UapiKeys ==
    {"private_key", "listen_port", "fwmark", "public_key", "endpoint",
     "persistent_keepalive_interval", "allowed_ip", "protocol_version",
     "preshared_key", "last_handshake_time_sec", "last_handshake_time_nsec",
     "tx_bytes", "rx_bytes", "unknown_key"}

UapiValues ==
    {<<"1">>, <<"8", "0">>, <<"a", "b">>, <<"x">>, <<"1", ":", "8", "0">>,
     <<":", ":", "/", "0">>, <<":", ":", "/", "0", "0">>,
     <<"1", "0", ".", "0", ".", "0", ".", "0", "/", "8">>,
     <<"[", ":", ":", "1", ".", "2", ".", "3", ".", "4", "]", ":", "8", "0">>,
     <<"6", "5", "5", "3", "6", "x">>}

\* The lines FromUAPI is given: every key with every value, the empty line,
\* a line without "=" and a line with two.
UapiLines ==
    (UapiKeys \X UapiValues)
        \cup {<<"">>, <<"fwmark">>, <<"fwmark", <<"1">>, <<"1">>>>}

NextUapi ==
    \/ \E l \in UapiLines, build \in Builds : ScanLine(l, build)
    \/ \E err \in ScannerErrors : ScanEnd(err)

SpecUapi == Init /\ [][NextUapi]_vars

-----------------------------------------------------------------------------
(* tai64n: the whitened timestamp.  A time is a second and a nanosecond     *)
(* within it; a Timestamp is the seconds (big-endian, offset by the TAI64   *)
(* base, which the comparison does not see) followed by the nanoseconds.    *)

NanosPerSecond == 1000000000

\* The low bits of the nanoseconds that whitening clears: 2^24 - 1.
whitenerMask == 16777215

\* t.Add(d) for a duration of d nanoseconds, d >= 0.
AddNanos(t, d) ==
    [sec  |-> t.sec + (t.nsec + d) \div NanosPerSecond,
     nsec |-> (t.nsec + d) % NanosPerSecond]

\* uint32(n) & whitenerMask
MaskedBits(n) == n % (whitenerMask + 1)

\* Variant of stamp that keeps the nanoseconds as they are.
stampUnwhitened(t) ==
    [secs |-> t.sec, nano |-> t.nsec]

\* stamp(t): the seconds of t and its nanoseconds with the whitenerMask bits
\* cleared.
stamp(t) ==
    [secs |-> t.sec, nano |-> t.nsec - MaskedBits(t.nsec)]

\* Timestamp.After: the bytes of a compare greater than the bytes of b.
After(a, b) ==
    \/ a.secs > b.secs
    \/ a.secs = b.secs /\ a.nano > b.nano

\* TestMonotonic, line 468: the nanoseconds from t to the last nanosecond
\* with the same bits above the mask.
nanosToNext(t) == whitenerMask - MaskedBits(t.nsec)

\* The two times are stamped.
Stamp ==
    /\ stamps = NotStamped
    /\ stamps' = <<stamp(times[1]), stamp(times[2])>>
    /\ UNCHANGED <<deviceVars, netVars, endpointVars, uapiVars, lockVars, bindVars, times>>

\* The nanoseconds of the times stamped: those of the tests, the ends and
\* starts of whitening buckets, and the ends of the second.
SampleNanos ==
    {0, 1, 123123456, 123123654, 133456123, 143321654,
     whitenerMask, whitenerMask + 1, 8 * (whitenerMask + 1) - 1,
     979999999, 989855744, 999999999}

Times == [sec : 0..MaxSec, nsec : SampleNanos]

InitStamp ==
    /\ DeviceInit
    /\ LockInit
    /\ BindInit
    /\ NetInit
    /\ EndpointInit
    /\ UapiInit
    /\ times \in Times \X Times
    /\ stamps = NotStamped

NextStamp ==
    Stamp

SpecStamp == InitStamp /\ [][NextStamp]_vars

-----------------------------------------------------------------------------
(* The locking of the peer operations: each operation as the sequence of    *)
(* its lock, unlock and write statements, in the order the source runs      *)
(* them (deferred unlocks at the return), one sequence per path through the *)
(* operation.  The goroutines run them on one peer, statement by statement. *)

\* A statement: what it does, the lock or the field it does it on, its line.
S(do, on, ln) == [do |-> do, on |-> on, line |-> ln]

\* Device.DeleteKeypair / IndexTable.Delete at line ln: the index table is
\* changed under its own lock.
TableDelete(ln) ==
    <<S("Lock", "device.indexTable", ln),
      S("Write", "device.indexTable", ln),
      S("Unlock", "device.indexTable", ln)>>

\* Peer.Start, lines 179-219: only peer.routines is locked.
StartProgram ==
    <<S("Lock", "peer.routines", 179),
      S("Unlock", "peer.routines", 180)>>

\* Lines 88-98 of NewPeer: the return at the peer limit.
NewPeerTooManyProgram ==
    <<S("RLock", "device.staticIdentity", 88),
      S("Lock", "device.peers", 91),
      S("Unlock", "device.peers", 92),
      S("RUnlock", "device.staticIdentity", 89)>>

\* Lines 88-115 of NewPeer: the return for an existing peer.
NewPeerExistingProgram ==
    <<S("RLock", "device.staticIdentity", 88),
      S("Lock", "device.peers", 91),
      S("Lock", "peer", 103),
      S("Unlock", "peer", 104),
      S("Unlock", "device.peers", 92),
      S("RUnlock", "device.staticIdentity", 89)>>

\* Lines 88-133 of NewPeer: the peer is made and added to the map.
NewPeerAddProgram ==
    <<S("RLock", "device.staticIdentity", 88),
      S("Lock", "device.peers", 91),
      S("Lock", "peer", 103),
      S("Lock", "peer.handshake.mutex", 120),
      S("Write", "handshake.precomputedStaticStatic", 121),
      S("Write", "handshake.remoteStatic", 122),
      S("Write", "handshake.initiationLimit", 123),
      S("Unlock", "peer.handshake.mutex", 125),
      S("Write", "peer.endpoint", 129),
      S("Write", "device.peers.keyMap", 133)>>

\* The deferred unlocks of NewPeer, lines 104, 92 and 89.
NewPeerReturnProgram ==
    <<S("Unlock", "peer", 104),
      S("Unlock", "device.peers", 92),
      S("RUnlock", "device.staticIdentity", 89)>>

\* Peer.SendBuffer, lines 144-164, when there is a bind.
SendBufferProgram ==
    <<S("RLock", "device.net", 145),
      S("RLock", "peer", 152),
      S("Write", "peer.stats.txBytes", 161),
      S("RUnlock", "peer", 153),
      S("RUnlock", "device.net", 146)>>

\* Lines 145-150 of SendBuffer: the return without a bind.
SendBufferNoBindProgram ==
    <<S("RLock", "device.net", 145),
      S("RUnlock", "device.net", 146)>>

\* Peer.ZeroAndFlushAll, lines 222-246
ZeroAndFlushAllProgram ==
    <<S("Lock", "peer.keypairs", 228)>>
        \o TableDelete(229) \o TableDelete(230) \o TableDelete(231)
        \o <<S("Write", "keypairs.previous", 232),
             S("Write", "keypairs.current", 233),
             S("Write", "keypairs.next", 234),
             S("Unlock", "peer.keypairs", 235),
             S("Lock", "peer.handshake.mutex", 240)>>
        \o TableDelete(241)
        \o <<S("Write", "handshake.localIndex", 242),
             S("Write", "handshake.state", 242),
             S("Unlock", "peer.handshake.mutex", 243)>>

\* Variant of ExpireCurrentKeypairsProgram that expires the keypairs before
\* it unlocks the handshake (line 253 moved below line 264).
ExpireCurrentKeypairsNestedProgram ==
    <<S("Lock", "peer.handshake.mutex", 250)>>
        \o TableDelete(251)
        \o <<S("Write", "handshake.localIndex", 252),
             S("Write", "handshake.state", 252),
             S("Write", "handshake.lastSentHandshake", 254),
             S("Lock", "peer.keypairs", 257),
             S("Write", "keypairs.current.sendNonce", 259),
             S("Write", "keypairs.next.sendNonce", 262),
             S("Unlock", "peer.keypairs", 264),
             S("Unlock", "peer.handshake.mutex", 253)>>

\* Peer.ExpireCurrentKeypairs, lines 248-265
ExpireCurrentKeypairsProgram ==
    <<S("Lock", "peer.handshake.mutex", 250)>>
        \o TableDelete(251)
        \o <<S("Write", "handshake.localIndex", 252),
             S("Write", "handshake.state", 252),
             S("Unlock", "peer.handshake.mutex", 253),
             S("Write", "handshake.lastSentHandshake", 254),
             S("Lock", "peer.keypairs", 257),
             S("Write", "keypairs.current.sendNonce", 259),
             S("Write", "keypairs.next.sendNonce", 262),
             S("Unlock", "peer.keypairs", 264)>>

\* Peer.Stop, lines 267-296: ZeroAndFlushAll is called under peer.routines.
StopProgram ==
    <<S("Lock", "peer.routines", 277)>>
        \o ZeroAndFlushAllProgram
        \o <<S("Unlock", "peer.routines", 278)>>

\* Peer.SetEndpointAddress, lines 300-317: LookupIP reads the allowed-IP
\* table under its lock, then the endpoint is updated under peer.Lock().
SetEndpointAddressProgram ==
    <<S("RLock", "device.allowedips", 304),
      S("RUnlock", "device.allowedips", 304),
      S("Lock", "peer", 309),
      S("Write", "peer.endpoint", 311),
      S("Unlock", "peer", 316)>>

\* The statements of each path through each operation.
Program ==
    [NewPeerTooMany        |-> NewPeerTooManyProgram,
     NewPeerExisting       |-> NewPeerExistingProgram,
     NewPeerDown           |-> NewPeerAddProgram \o NewPeerReturnProgram,
     NewPeerUp             |-> NewPeerAddProgram \o StartProgram \o NewPeerReturnProgram,
     SendBuffer            |-> SendBufferProgram,
     SendBufferNoBind      |-> SendBufferNoBindProgram,
     Start                 |-> StartProgram,
     Stop                  |-> StopProgram,
     ZeroAndFlushAll       |-> ZeroAndFlushAllProgram,
     ExpireCurrentKeypairs |-> ExpireCurrentKeypairsProgram,
     SetEndpointAddress    |-> SetEndpointAddressProgram]

Operations == DOMAIN Program

\* The statement goroutine t runs next (NoAccess when it runs no operation).
NextStatement(t) ==
    IF running[t].op = "idle" THEN NoAccess ELSE Program[running[t].op][running[t].at]

\* The locks goroutine t holds, for writing or for reading.
HeldBy(t) ==
    {l \in LockNames : locks[l].writer = t \/ t \in locks[l].readers}

\* Goroutine t goes on to the statement after the one it ran, or returns.
Advance(t) ==
    /\ running' = [running EXCEPT ![t] =
                      IF running[t].at = Len(Program[running[t].op])
                        THEN [op |-> "idle", at |-> 0]
                        ELSE [running[t] EXCEPT !.at = running[t].at + 1]]
    /\ access' = [do     |-> NextStatement(t).do,
                  on     |-> NextStatement(t).on,
                  line   |-> NextStatement(t).line,
                  thread |-> t,
                  held   |-> HeldBy(t)]
    /\ UNCHANGED <<deviceVars, netVars, endpointVars, uapiVars, stampVars, bindVars>>

\* Goroutine t calls an operation and takes the path op through it.
CallOperation(t, op) ==
    /\ running[t].op = "idle"
    /\ running' = [running EXCEPT ![t] = [op |-> op, at |-> 1]]
    /\ access' = NoAccess
    /\ UNCHANGED <<deviceVars, netVars, endpointVars, uapiVars, stampVars, bindVars, locks>>

\* sync.RWMutex: Lock() waits until nobody holds the lock, RLock() until no
\* writer does.
AcquireLock(t) ==
    /\ NextStatement(t).do \in {"Lock", "RLock"}
    /\ locks[NextStatement(t).on].writer = None
    /\ NextStatement(t).do = "Lock" => locks[NextStatement(t).on].readers = {}
    /\ locks' = [locks EXCEPT ![NextStatement(t).on] =
                    IF NextStatement(t).do = "Lock"
                      THEN [@ EXCEPT !.writer = t]
                      ELSE [@ EXCEPT !.readers = @ \cup {t}]]
    /\ Advance(t)

\* Unlock() and RUnlock()
ReleaseLock(t) ==
    /\ NextStatement(t).do \in {"Unlock", "RUnlock"}
    /\ locks' = [locks EXCEPT ![NextStatement(t).on] =
                    IF NextStatement(t).do = "Unlock"
                      THEN [@ EXCEPT !.writer = None]
                      ELSE [@ EXCEPT !.readers = @ \ {t}]]
    /\ Advance(t)

\* A write of a field.
WriteField(t) ==
    /\ NextStatement(t).do = "Write"
    /\ UNCHANGED locks
    /\ Advance(t)

NextLocks ==
    \/ \E t \in Threads, op \in Operations : CallOperation(t, op)
    \/ \E t \in Threads : AcquireLock(t)
    \/ \E t \in Threads : ReleaseLock(t)
    \/ \E t \in Threads : WriteField(t)

SpecLocks == Init /\ [][NextLocks]_vars

-----------------------------------------------------------------------------
(* Package bindtest: the two channel binds of NewChannelBinds.  A channel   *)
(* holds slices: a slice of a buffer of the caller is the buffer's address   *)
(* in mem, and a slice of a buffer that Send made, which nothing else        *)
(* refers to, is given by the buffer's bytes.  wire records, for each bind   *)
(* and family, the bytes the bind's Send calls were given, in the order in   *)
(* which they came to the channel send, until the other bind receives them.  *)

\* The other bind of the pair.
Other(c) == 1 - c

\* Lines 355-362: the channel bind c receives family f on, and the channel it
\* sends family f on (the other bind's receive channel).
rx(c, f) == <<c, f>>
tx(c, f) == <<Other(c), f>>

\* Lines 363-366: target4 is 1 and 2, target6 is 3 and 4.
target(c, f) == IF f = 4 THEN c + 1 ELSE c + 3

\* The endpoints Send is called with: the four targets and one more.
Endpoints == 1..5

\* Variant of CopiedBuffer that sends the caller's buffer itself.
SharedBuffer(m, b) == [at |-> b, bytes |-> <<>>]

\* Lines 426-427: bc := make([]byte, len(b)); copy(bc, b)
CopiedBuffer(m, b) == [at |-> 0, bytes |-> m[b]]

\* The bytes of a slice: those of the caller's buffer it is a slice of, or
\* its own.
Bytes(m, slice) == IF slice.at = 0 THEN slice.bytes ELSE m[slice.at]

\* copy(b, rx) at line 416 into a buffer b of length size
Copy(size, bytes) ==
    SubSeq(bytes, 1, IF size < Len(bytes) THEN size ELSE Len(bytes))

\* Open, lines 386-395: a new closeSignal, and the two receive functions.
\* The port it returns (source4 or source6, at random) is not kept.
Open(c) ==
    /\ closeSignal' = [closeSignal EXCEPT ![c] = "open"]
    /\ bindRet' = NoBindCall
    /\ UNCHANGED <<deviceVars, netVars, endpointVars, uapiVars, stampVars, lockVars,
                   chans, mem, made, sending, wire>>

\* Close, lines 397-406: closes closeSignal unless it is nil or closed.
Close(c) ==
    /\ closeSignal' = [closeSignal EXCEPT ![c] = IF @ = "nil" THEN "nil" ELSE "closed"]
    /\ bindRet' = [call |-> "Close", bind |-> c, err |-> "nil"]
    /\ UNCHANGED <<deviceVars, netVars, endpointVars, uapiVars, stampVars, lockVars,
                   chans, mem, made, sending, wire>>

\* The state after *c.tx4 <- bc (or tx6) at lines 429 and 431 on a channel
\* with room, and the return at line 436.
Enqueued(c, f, bc) ==
    /\ chans' = [chans EXCEPT ![tx(c, f)] = Append(@, bc)]
    /\ sending' = [sending EXCEPT ![c] = NoSend]
    /\ bindRet' = [call |-> "Send", bind |-> c, ep |-> target(c, f), err |-> "nil"]

\* Send, lines 421-437: the select on closeSignal, the copy, the choice of
\* the channel and the channel send; when the channel is full the Send
\* waits at its channel send.
Send(c, ep) ==
    /\ sending[c] = NoSend
    /\ made < MaxSends
    /\ IF closeSignal[c] = "closed"
         THEN /\ bindRet' = [call |-> "Send", bind |-> c, ep |-> ep,
                             err |-> "net.ErrClosed"]
              /\ UNCHANGED <<made, sending, chans, wire>>
         ELSE IF \E f \in Families : ep = target(c, f)
                THEN LET f  == CHOOSE f \in Families : ep = target(c, f)
                         bc == CopiedBuffer(mem, CallerBuffer)
                     IN  /\ made' = made + 1
                         /\ wire' = [wire EXCEPT ![<<c, f>>] =
                                        Append(@, mem[CallerBuffer])]
                         /\ IF Len(chans[tx(c, f)]) < ChannelCapacity
                              THEN Enqueued(c, f, bc)
                              ELSE /\ sending' = [sending EXCEPT ![c] =
                                          [bc |-> bc, f |-> f, queued |-> FALSE]]
                                   /\ bindRet' = NoBindCall
                                   /\ UNCHANGED chans
                ELSE /\ bindRet' = [call |-> "Send", bind |-> c, ep |-> ep,
                                    err |-> "os.ErrInvalid"]
                     /\ UNCHANGED <<made, sending, chans, wire>>
    /\ UNCHANGED <<deviceVars, netVars, endpointVars, uapiVars, stampVars, lockVars,
                   closeSignal, mem>>

\* Send, lines 429 and 431 to 436: a Send that waited at its channel send
\* returns once a receive has taken its buffer into the channel.
SendReturn(c) ==
    /\ sending[c] # NoSend
    /\ sending[c].queued
    /\ sending' = [sending EXCEPT ![c] = NoSend]
    /\ bindRet' = [call |-> "Send", bind |-> c, ep |-> target(c, sending[c].f),
                   err |-> "nil"]
    /\ UNCHANGED <<deviceVars, netVars, endpointVars, uapiVars, stampVars, lockVars,
                   closeSignal, chans, mem, made, wire>>

\* The buffers of the Send calls of bind c that wait at the channel send of
\* family f (line 429 or 431), the channel being full: at most one.
Waiting(c, f) ==
    IF sending[c] # NoSend /\ ~sending[c].queued /\ sending[c].f = f
      THEN <<sending[c].bc>>
      ELSE <<>>

\* The receive function of makeReceiveFunc, lines 411-414: closeSignal is
\* closed.
ReceiveClosed(c, f) ==
    /\ closeSignal[c] = "closed"
    /\ bindRet' = [call |-> "Receive", err |-> "net.ErrClosed"]
    /\ UNCHANGED <<deviceVars, netVars, endpointVars, uapiVars, stampVars, lockVars,
                   closeSignal, chans, mem, made, sending, wire>>

\* The receive function of makeReceiveFunc, lines 415-416, called with a
\* buffer b of length size: a buffer is taken from the channel and copied
\* into b; the channel receive also takes the buffer of a Send that waits
\* at its channel send into the channel, behind the others, and that Send
\* has then only to return.  Open makes the function, so the bind has been
\* opened.  The endpoint it returns (c.target6) is not kept.
ReceiveBuffer(c, f, size) ==
    /\ closeSignal[c] # "nil"
    /\ chans[rx(c, f)] # <<>>
    /\ chans' = [chans EXCEPT ![rx(c, f)] = Tail(@) \o Waiting(Other(c), f)]
    /\ sending' = IF Waiting(Other(c), f) = <<>>
                    THEN sending
                    ELSE [sending EXCEPT ![Other(c)].queued = TRUE]
    /\ wire' = [wire EXCEPT ![<<Other(c), f>>] = IF @ = <<>> THEN @ ELSE Tail(@)]
    /\ bindRet' = [call |-> "Receive", size |-> size,
                   b |-> Copy(size, Bytes(mem, Head(chans[rx(c, f)]))),
                   err |-> "nil"]
    /\ UNCHANGED <<deviceVars, netVars, endpointVars, uapiVars, stampVars, lockVars,
                   closeSignal, mem, made>>

\* The caller changes its buffer after a Send.
ChangeBuffer(bytes) ==
    /\ bytes # mem[CallerBuffer]
    /\ mem' = [mem EXCEPT ![CallerBuffer] = bytes]
    /\ bindRet' = NoBindCall
    /\ UNCHANGED <<deviceVars, netVars, endpointVars, uapiVars, stampVars, lockVars,
                   closeSignal, chans, made, sending, wire>>

\* The lengths of the buffers the receive functions are called with.
ReceiveSizes == 1..2

NextBind ==
    \/ \E c \in Binds : Open(c)
    \/ \E c \in Binds : Close(c)
    \/ \E c \in Binds, ep \in Endpoints : Send(c, ep)
    \/ \E c \in Binds : SendReturn(c)
    \/ \E c \in Binds, f \in Families : ReceiveClosed(c, f)
    \/ \E c \in Binds, f \in Families, size \in ReceiveSizes : ReceiveBuffer(c, f, size)
    \/ \E bytes \in Buffers : ChangeBuffer(bytes)

\* The receive loops keep calling the receive functions with buffers that
\* hold a whole packet.
ReceiveFairness ==
    \A c \in Binds, f \in Families : WF_vars(ReceiveBuffer(c, f, 2))

SpecBind == Init /\ [][NextBind]_vars /\ ReceiveFairness

-----------------------------------------------------------------------------
(* Vocabulary of the properties *)

\* The call that returned in the last step.
Returned(op) == event.call = op

\* No Start or Stop call on peer k is in flight.
Quiescent(k) == \A t \in Threads : arg[t] # k

Slots == {"previous", "current", "next"}

KeysCleared(p) ==
    /\ \A s \in Slots : p.keypairs[s] = NoKeypair
    /\ p.handshake.state = "zeroed"
    /\ p.handshake.localIndex = 0

QueueNames == {"nonce", "outbound", "inbound"}

AllRoutinesRunning(p) == \A r \in Routines : p.routine[r] = "running"

-----------------------------------------------------------------------------
(* C1.  In the state in which a call of Stop has just returned, none of the *)
(* peer's three routines is running and the previous, current and next      *)
(* keypair slots and the handshake are cleared, whatever other Start and    *)
(* Stop calls are in flight and whether or not the peer was running.        *)
(* The code returns at line 272 without waiting whenever isRunning is       *)
(* already false: beside a Stop that has swapped the flag but not yet       *)
(* closed the stop channel, or beside a Start that has spawned the routines *)
(* but not yet set the flag.                                                *)
StopLeavesPeerStopped ==
    Returned("Stop") =>
        /\ RunningRoutines(peers[event.peer]) = {}
        /\ KeysCleared(peers[event.peer])

(* C2.  No state is reachable in which a Start that holds the routines lock *)
(* waits on the stopping WaitGroup while the Stop that would release it     *)
(* waits for the routines lock.  (From such a state neither call returns:   *)
(* only that Stop closes the stop channel the routines wait for.)           *)
StartNeverBlocksStop ==
    \A t1, t2 \in Threads :
        ~ /\ pc[t1] = "start_wait_stopping"
          /\ pc[t2] = "stop_lock"
          /\ arg[t1] = arg[t2]
          /\ peers[arg[t1]].rlock = t1
          /\ peers[arg[t1]].stopping > 0

(* C3.  Stop tears down in a fixed order: running flag false, timers        *)
(* stopped, stop channel closed, routines exited, queues closed; and no     *)
(* queue of a peer is closed while one of its routines is running.          *)
StopTeardownOrder ==
    /\ \A k \in KeyMap : \A q \in QueueNames :
          peers[k].queue[q].st = "closed" => RunningRoutines(peers[k]) = {}
    /\ \A t \in Threads :
        LET p == peers[arg[t]]
            QueuesOpen == \A q \in QueueNames : p.queue[q].st = "open"
        IN  /\ pc[t] \in {"stop_wait_starting", "stop_lock", "stop_timers"} =>
                   ~p.isRunning /\ p.timers.st = "init" /\ p.stop.st = "open" /\ QueuesOpen
            /\ pc[t] = "stop_close_stop" =>
                   ~p.isRunning /\ p.timers.st = "stopped" /\ p.stop.st = "open" /\ QueuesOpen
            /\ pc[t] = "stop_wait_stopping" =>
                   ~p.isRunning /\ p.timers.st = "stopped" /\ p.stop.st = "closed" /\ QueuesOpen
            /\ pc[t] = "stop_close_queues" =>
                   /\ p.timers.st = "stopped" /\ p.stop.st = "closed" /\ QueuesOpen
                   /\ RunningRoutines(p) = {}
            /\ pc[t] \in {"stop_zero", "stop_zero_handshake", "stop_zero_flush",
                         "stop_unlock"} =>
                   /\ p.stop.st = "closed" /\ RunningRoutines(p) = {}
                   /\ \A q \in QueueNames : p.queue[q].st = "closed"

\* A Stop has closed the queues of a peer whose routines have all exited.
StopTeardownOrderWitness ==
    \E t \in Threads :
        /\ pc[t] = "stop_zero"
        /\ \A q \in QueueNames : peers[arg[t]].queue[q].st = "closed"

(* C4.  Every stop and queue channel a Start makes is closed exactly once,  *)
(* by the Stop that ends that run: close never panics (no nil channel and   *)
(* no closed channel is closed); the channels a Start replaces are nil or   *)
(* already closed; with no call in flight the channels of a stopped peer    *)
(* are all closed and those of a running peer are all open.                 *)
ChannelsClosedExactlyOnce ==
    /\ panic = None
    /\ \A t \in Threads : pc[t] # "panicked"
    /\ \A t \in Threads :
          pc[t] = "start_reset" =>
              /\ peers[arg[t]].stop.st \in {"nil", "closed"}
              /\ \A q \in QueueNames : peers[arg[t]].queue[q].st \in {"nil", "closed"}
    /\ \A k \in KeyMap :
        LET p == peers[k] IN
        /\ p.gen = 0 => p.stop = NilChan /\ \A q \in QueueNames : p.queue[q] = NilChan
        /\ p.gen > 0 => p.stop.id = p.gen /\ \A q \in QueueNames : p.queue[q].id = p.gen
        /\ Quiescent(k) /\ p.gen > 0 /\ ~p.isRunning =>
              p.stop.st = "closed" /\ \A q \in QueueNames : p.queue[q].st = "closed"
        /\ Quiescent(k) /\ p.isRunning =>
              p.stop.st = "open" /\ \A q \in QueueNames : p.queue[q].st = "open"

\* A peer has been started twice and stopped twice: the channels of its
\* second run are closed too.
ChannelsClosedExactlyOnceWitness ==
    \E k \in KeyMap :
        /\ Returned("Stop") /\ event.peer = k
        /\ Quiescent(k)
        /\ peers[k].stop = [id |-> 2, st |-> "closed"]
        /\ \A q \in QueueNames : peers[k].queue[q] = [id |-> 2, st |-> "closed"]

(* C5.  A stopped peer can be restarted: a Start that returns nil leaves    *)
(* isRunning true, a stop channel and three queues made by that Start and   *)
(* open, and exactly the three routines running; with no Start or Stop in   *)
(* flight isRunning is true exactly when the three routines are running,    *)
(* and a peer that is not running has no routine left, both WaitGroups at   *)
(* zero and the routines lock free, so that the next Start goes through.    *)
RestartYieldsRunningPeer ==
    /\ Returned("Start") /\ event.result = "nil" =>
        LET p == peers[event.peer] IN
        /\ p.isRunning
        /\ p.gen >= 1
        /\ p.stop = MakeChan(p.gen)
        /\ \A q \in QueueNames : p.queue[q] = MakeChan(p.gen)
        /\ AllRoutinesRunning(p)
        /\ Cardinality(RunningRoutines(p)) = PeerRoutineNumber
    /\ \A k \in KeyMap :
        Quiescent(k) =>
            /\ peers[k].isRunning <=> AllRoutinesRunning(peers[k])
            /\ ~peers[k].isRunning =>
                  /\ RunningRoutines(peers[k]) = {}
                  /\ peers[k].starting = 0 /\ peers[k].stopping = 0
                  /\ peers[k].rlock = None

\* A Start has returned nil on a peer that ran and was stopped before.
RestartYieldsRunningPeerWitness ==
    /\ Returned("Start") /\ event.result = "nil"
    /\ peers[event.peer].gen = 2
    /\ Quiescent(event.peer)

(* C6.  Start returns an error when the device is closed and when the peer  *)
(* is already running, and then changes nothing: no routine is spawned,     *)
(* the stop channel, the queues, the signal channels and the timers are     *)
(* not replaced and both WaitGroup counts are unchanged.                    *)
StartErrorsChangeNothing ==
    [][\A t \in Threads :
        /\ (pc[t] = "idle" /\ pc'[t] = "start_lock") => ~isClosed
        /\ (pc[t] = "start_check_running" /\ pc'[t] # pc[t] /\ peers[arg[t]].isRunning) =>
              /\ event'.call = "Start" /\ event'.thread = t
              /\ event'.result = "Start called on running device"
        /\ (event'.call = "Start" /\ event'.thread = t /\ pc[t] = "idle") =>
              /\ isClosed
              /\ event'.result = "Start called on closed device"
        /\ (event'.call = "Start" /\ event'.thread = t /\ event'.result # "nil") =>
              /\ peers' = IF pc[t] = "idle" THEN peers
                          ELSE [peers EXCEPT ![event'.peer].rlock = None]
              /\ peers[event'.peer].rlock = IF pc[t] = "idle" THEN peers'[event'.peer].rlock
                                            ELSE t
              /\ indexTable' = indexTable
              /\ isClosed' = isClosed /\ isUp' = isUp
      ]_vars

\* A Start on a running peer has just returned its error.
StartErrorsChangeNothingWitness ==
    /\ Returned("Start")
    /\ event.result = "Start called on running device"
    /\ peers[event.peer].isRunning
    /\ AllRoutinesRunning(peers[event.peer])

(* C10.  When ZeroAndFlushAll returns, with the routines running or not,    *)
(* the previous, current and next slots are nil and the handshake is        *)
(* cleared, so that the peer holds no local index of the device index       *)
(* table.  The code clears the slots under keypairs.Lock() (lines 228-235)  *)
(* and the handshake under handshake.mutex (lines 240-243): a handshake     *)
(* that completes between the two sections puts its keypair in the next     *)
(* slot, under the handshake's local index, and the call returns with it.   *)
ZeroAndFlushAllClears ==
    Returned("ZeroAndFlushAll") =>
        /\ KeysCleared(peers[event.peer])
        /\ OwnedIndices(peers[event.peer]) = {}

(* C7.  The peer map never holds more than MaxPeers peers: a NewPeer call   *)
(* that finds MaxPeers peers in the map when it has taken the map's lock    *)
(* fails with "too many peers", adds no entry and starts nothing; a call    *)
(* goes on to add its peer only when the map is below MaxPeers, and only    *)
(* such a call returns nil.                                                 *)
PeerLimitHolds ==
    /\ [](Cardinality(KeyMap) <= MaxPeers)
    /\ [][\A t \in Threads :
              /\ (/\ pc[t] = "newpeer_lock" /\ pc'[t] # "newpeer_lock"
                  /\ Cardinality(KeyMap) >= MaxPeers) =>
                    /\ event'.call = "NewPeer" /\ event'.thread = t
                    /\ event'.result = "too many peers"
                    /\ peers' = peers
              /\ (pc[t] = "newpeer_lock" /\ pc'[t] = "newpeer_is_up") =>
                    Cardinality(KeyMap) < MaxPeers
              /\ (event'.call = "NewPeer" /\ event'.thread = t /\ event'.result = "nil") =>
                    pc[t] \in NewPeerLabels
      ]_vars

\* NewPeer has just been refused on a full map.
PeerLimitHoldsWitness ==
    /\ Returned("NewPeer")
    /\ event.result = "too many peers"
    /\ ~Exists(event.peer)
    /\ Cardinality(KeyMap) = MaxPeers

(* C8.  NewPeer with a public key that is already in the map fails: with    *)
(* "adding existing peer" when it has taken the map's lock and the map is   *)
(* below MaxPeers.  A NewPeer that fails leaves the map as it was: the      *)
(* entry of that key and every other peer are unchanged and no routine is   *)
(* started.                                                                 *)
ExistingPeerRejected ==
    [][\A t \in Threads :
          /\ (/\ pc[t] = "newpeer_lock" /\ pc'[t] # "newpeer_lock"
              /\ Exists(arg[t])) =>
                /\ event'.call = "NewPeer" /\ event'.thread = t
                /\ event'.peer = arg[t]
                /\ event'.result # "nil"
                /\ Cardinality(KeyMap) < MaxPeers =>
                      event'.result = "adding existing peer"
          /\ (event'.call = "NewPeer" /\ event'.thread = t /\ event'.result # "nil") =>
                /\ peers' = peers
                /\ indexTable' = indexTable
      ]_vars

\* NewPeer has just been refused for the key of a peer that was restarted since
\* its creation.
ExistingPeerRejectedWitness ==
    /\ Returned("NewPeer")
    /\ event.result = "adding existing peer"
    /\ peers[event.peer].gen = 2
    /\ peers[event.peer].isRunning

(* C9.  The peer of a successful NewPeer is in the map under its key, with  *)
(* a nil endpoint and empty keypair slots; it is running, with its three    *)
(* routines started, when the device was up as NewPeer read isUp (line      *)
(* 137), and has no routine and no queue when the device was down.  NewPeer *)
(* on a closed device fails with "device closed" and adds nothing: no call  *)
(* returns a peer of a closed device.                                       *)
(* The code reads isClosed at line 82, before it waits for the locks, and   *)
(* drops the error of the Start of line 138: a Device.Close during the call *)
(* leaves a new peer in the map of a closed device, not started although    *)
(* the device was up at line 137.                                           *)
NewPeerCreatesPeer ==
    /\ []((Returned("NewPeer") /\ event.result = "nil") =>
            /\ ~isClosed
            /\ Exists(event.peer)
            /\ peers[event.peer].handshake.remoteStatic = event.peer
            /\ peers[event.peer].endpoint = None
            /\ KeysCleared(peers[event.peer]))
    /\ [][\A t \in Threads :
              /\ (event'.call = "NewPeer" /\ event'.thread = t /\ event'.result = "nil") =>
                    LET p == peers'[event'.peer] IN
                    /\ pc[t] \in NewPeerLabels
                    /\ pc[t] = "newpeer_is_up" =>
                          /\ ~isUp
                          /\ ~p.isRunning /\ RunningRoutines(p) = {}
                          /\ p.stop = NilChan
                          /\ \A q \in QueueNames : p.queue[q] = NilChan
                    /\ pc[t] # "newpeer_is_up" =>
                          /\ p.isRunning /\ AllRoutinesRunning(p)
                          /\ p.stop.st = "open"
                          /\ \A q \in QueueNames : p.queue[q].st = "open"
              /\ (pc[t] = "idle" /\ pc'[t] = "newpeer_lock") => ~isClosed
              /\ (pc[t] = "idle" /\ event'.call = "NewPeer" /\ event'.thread = t) =>
                    /\ isClosed
                    /\ event'.result = "device closed"
                    /\ peers' = peers
      ]_vars

-----------------------------------------------------------------------------
(* Keypair slots and the index table *)

\* The occupied keypair slots of the device, as <<peer, slot>> pairs.
OccupiedSlots ==
    {ks \in KeyMap \X Slots : peers[ks[1]].keypairs[ks[2]] # NoKeypair}

(* C11.  In every reachable state, whatever ZeroAndFlushAll,                *)
(* ExpireCurrentKeypairs and Stop calls have been made, the local index of  *)
(* every keypair in a previous, current or next slot is in the device index *)
(* table, and it is the index of that slot alone: no other slot and no      *)
(* handshake in flight holds it.                                            *)
SlotIndicesInTable ==
    \A ks \in OccupiedSlots :
        LET i == peers[ks[1]].keypairs[ks[2]].localIndex IN
        /\ i \in indexTable
        /\ \A other \in OccupiedSlots \ {ks} :
               peers[other[1]].keypairs[other[2]].localIndex # i
        /\ \A k \in KeyMap : peers[k].handshake.localIndex # i

\* ExpireCurrentKeypairs has returned on a peer whose three slots are occupied.
SlotIndicesInTableWitness ==
    /\ Returned("ExpireCurrentKeypairs")
    /\ \A sl \in Slots : <<event.peer, sl>> \in OccupiedSlots

-----------------------------------------------------------------------------
(* The endpoint and the traffic counter *)

(* C12.  A SetEndpointAddress call with address a sets the peer's endpoint  *)
(* to a when roaming is enabled and a is not routed to another peer by the  *)
(* allowed-IP table, and leaves the endpoint as it was when RoamingDisabled *)
(* is set or a is routed to another peer.                                   *)
SetEndpointAddressUpdates ==
    [][event'.call = "SetEndpointAddress" =>
           LET k == event'.peer
               a == event'.addr IN
           IF ~RoamingDisabled /\ allowedips[a] \in {0, k}
             THEN peers'[k].endpoint = a
             ELSE peers'[k].endpoint = peers[k].endpoint
      ]_vars

(* C13.  SendBuffer adds len(buffer) to the peer's txBytes exactly when     *)
(* bind.Send is reached and returns no error, and then returns nil.  With   *)
(* no bind, with no endpoint, or when Send fails, it returns the error and  *)
(* changes nothing.  No step of any operation lowers a peer's txBytes.      *)
SendBufferCountsBytes ==
    /\ [][event'.call = "SendBuffer" =>
              LET k == event'.peer
                  sent == /\ bind # None
                          /\ peers[k].endpoint # None
                          /\ event'.sendErr = "nil" IN
              /\ sent <=> event'.result = "nil"
              /\ sent => peers' = [peers EXCEPT
                                     ![k].stats.txBytes = peers[k].stats.txBytes + event'.len]
              /\ ~sent => peers' = peers
              /\ bind = None => event'.result = "no bind"
              /\ (bind # None /\ peers[k].endpoint = None) =>
                     event'.result = "no known endpoint for peer"
              /\ UNCHANGED <<isClosed, isUp, indexTable, bind, RoamingDisabled, allowedips>>
      ]_vars
    /\ [][\A k \in Keys :
              (peers[k] # NoPeer /\ peers'[k] # NoPeer) =>
                  peers'[k].stats.txBytes >= peers[k].stats.txBytes
      ]_vars

\* A SendBuffer call whose Send failed has returned the error on a peer that
\* had counted bytes before.
SendBufferCountsBytesWitness ==
    /\ Returned("SendBuffer")
    /\ event.result = "error"
    /\ event.len > 0
    /\ peers[event.peer].stats.txBytes > 0

-----------------------------------------------------------------------------
(* Endpoint strings *)

\* The host and the port string of an endpoint: what stands before and after
\* the last ':'.
HostOf(s) == Slice(s, 0, LastIndexByte(s, ":"))
PortStringOf(s) == Slice(s, LastIndexByte(s, ":") + 1, Len(s))

\* The string is a decimal number within lo..hi (numbers of at most five
\* digits).
DecimalWithin(s, lo, hi) ==
    LET digits == IF s # <<>> /\ s[1] \in {"+", "-"} THEN Tail(s) ELSE s
        value == DecimalValue(TrimZeros(digits)) IN
    /\ digits # <<>>
    /\ \A i \in 1..Len(digits) : IsDigit(digits[i])
    /\ Len(TrimZeros(digits)) <= 5
    /\ (IF s[1] = "-" THEN 0 - value ELSE value) \in lo..hi

Contains(s, c) == IndexByte(s, c) >= 0

\* x is an IPv6 address in text: groups of at most four hexadecimal digits,
\* with a dotted IPv4 address of fields without leading zeros in the place
\* of the last two.
IsIPv6Literal(x) == Contains(x, ":") /\ parseIPv6(x, "netip").ok

(* C14.  parseEndpoint accepts an endpoint only when its port is within     *)
(* 1..65535: an endpoint whose port is 0, negative or above 65535 is        *)
(* rejected with an error.                                                  *)
EndpointPortInRange ==
    (endpointRet # NotCalled /\ endpointRet.err = "nil") =>
        /\ DecimalWithin(PortStringOf(endpointArg), 1, 65535)
        /\ endpointRet.port \in 1..65535

(* C15.  For an endpoint with a port parsePort accepts: a host without      *)
(* bracket and colon is returned unchanged; a host [x] is accepted exactly  *)
(* when x is an IPv6 literal, and x is returned; every other host that      *)
(* starts with '[', ends with ']' or contains ':' is an error; and the port *)
(* returned is the decimal value after the last ':'.                        *)
EndpointHostRules ==
    (/\ endpointRet # NotCalled
     /\ Contains(endpointArg, ":")
     /\ HostOf(endpointArg) # <<>>
     /\ DecimalWithin(PortStringOf(endpointArg), 0, 65535)) =>
        LET host == HostOf(endpointArg)
            x == Slice(host, 1, Len(host) - 1)
            port == PortStringOf(endpointArg)
            accepted(h) ==
                endpointRet = [host |-> h,
                               port |-> DecimalValue(IF port[1] \in {"+", "-"}
                                                       THEN Tail(port) ELSE port),
                               err  |-> "nil"] IN
        IF ~Contains(host, "[") /\ ~Contains(host, "]") /\ ~Contains(host, ":")
          THEN accepted(host)
        ELSE IF /\ Len(host) >= 2
                /\ At(host, 0) = "["
                /\ At(host, Len(host) - 1) = "]"
                /\ IsIPv6Literal(x)
          THEN accepted(x)
        ELSE IF At(host, 0) = "[" \/ At(host, Len(host) - 1) = "]" \/ Contains(host, ":")
          THEN endpointRet.err # "nil"
        ELSE TRUE

-----------------------------------------------------------------------------
(* The keys FromUAPI ignores *)

IgnoredPeerKeys ==
    {"preshared_key", "last_handshake_time_sec", "last_handshake_time_nsec",
     "tx_bytes", "rx_bytes"}

IgnoredKeys == IgnoredPeerKeys \cup {"fwmark"}

\* The step reads a key=value line whose key is in keys.
ScansKeyIn(keys) ==
    /\ scanned' = scanned + 1
    /\ Len(line') = 2
    /\ line'[1] \in keys

(* C16, as claimed.  A line whose key is preshared_key,                     *)
(* last_handshake_time_sec, last_handshake_time_nsec, tx_bytes, rx_bytes or *)
(* fwmark is accepted without error and leaves the Config unchanged,        *)
(* before the first public_key line and inside a peer stanza alike.         *)
IgnoredKeysAcceptedAnywhere ==
    [][ScansKeyIn(IgnoredKeys) => (uapiErr' = "scanning" /\ cfg' = cfg)]_vars

(* C16, amended.  A fwmark line before the first public_key line, and a     *)
(* preshared_key, last_handshake_time_sec, last_handshake_time_nsec,        *)
(* tx_bytes or rx_bytes line inside a peer stanza, is accepted without      *)
(* error and leaves the Config unchanged; a fwmark line inside a peer       *)
(* stanza, and a line of the other five keys before the first public_key    *)
(* line, ends FromUAPI with an "unexpected IpcGetOperation key" error.      *)
IgnoredKeysAcceptedInPlace ==
    [][ScansKeyIn(IgnoredKeys) =>
           IF deviceConfig <=> line'[1] = "fwmark"
             THEN /\ uapiErr' = "scanning"
                  /\ cfg' = cfg
                  /\ deviceConfig' = deviceConfig
             ELSE uapiErr' = "unexpected IpcGetOperation key"
      ]_vars

\* A tx_bytes line has just been read and accepted inside the stanza of a
\* peer that has an endpoint.
IgnoredKeysAcceptedInPlaceWitness ==
    /\ uapiErr = "scanning"
    /\ Len(line) = 2 /\ line[1] = "tx_bytes"
    /\ ~deviceConfig
    /\ cfg.Peers # <<>>
    /\ cfg.Peers[Len(cfg.Peers)].Endpoints # <<>>

-----------------------------------------------------------------------------
(* Timestamps *)

\* Time a is not later than time b.
NotLater(a, b) ==
    \/ a.sec < b.sec
    \/ a.sec = b.sec /\ a.nsec <= b.nsec

\* Neither timestamp is After the other.
CompareEqual(a, b) == ~After(a, b) /\ ~After(b, a)

\* Two times of the same second whose nanoseconds are equal once the
\* whitenerMask bits are cleared.
SameBucket(a, b) ==
    /\ a.sec = b.sec
    /\ a.nsec - MaskedBits(a.nsec) = b.nsec - MaskedBits(b.nsec)

\* t is the last nanosecond of its bucket: of the bits above the mask, or of
\* its second.
LastOfBucket(t) ==
    nanosToNext(t) = 0 \/ t.nsec = NanosPerSecond - 1

TwentyMilliseconds == 20000000

(* C17, as claimed.  For times t1 <= t2, stamp(t1) is never After           *)
(* stamp(t2); stamp(t) and stamp(t + 1 ns) compare equal, for every t;      *)
(* stamp(t + 20 ms) is After stamp(t); two times of the same bucket have    *)
(* equal stamps; and the first nanosecond after the bucket of t has a stamp *)
(* After stamp(t).                                                          *)
StampMonotoneStep ==
    stamps # NotStamped =>
        LET t == times[1] IN
        /\ NotLater(times[1], times[2]) => ~After(stamps[1], stamps[2])
        /\ CompareEqual(stamp(AddNanos(t, 1)), stamps[1])
        /\ After(stamp(AddNanos(t, TwentyMilliseconds)), stamps[1])
        /\ SameBucket(times[1], times[2]) => stamps[1] = stamps[2]
        /\ After(stamp(AddNanos(t, nanosToNext(t) + 1)), stamps[1])

(* C17, amended.  As claimed, except that stamp(t) and stamp(t + 1 ns)      *)
(* compare equal exactly when t is not the last nanosecond of its bucket;   *)
(* when it is, stamp(t + 1 ns) is After stamp(t).                           *)
StampStepFunction ==
    stamps # NotStamped =>
        LET t == times[1] IN
        /\ NotLater(times[1], times[2]) => ~After(stamps[1], stamps[2])
        /\ ~LastOfBucket(t) => CompareEqual(stamp(AddNanos(t, 1)), stamps[1])
        /\ After(stamp(AddNanos(t, TwentyMilliseconds)), stamps[1])
        /\ SameBucket(times[1], times[2]) => stamps[1] = stamps[2]
        /\ LastOfBucket(t) => After(stamp(AddNanos(t, 1)), stamps[1])
        /\ After(stamp(AddNanos(t, nanosToNext(t) + 1)), stamps[1])

\* Two different times of one bucket have been stamped, the first of them
\* not the last nanosecond of the bucket.
StampStepFunctionWitness ==
    /\ stamps # NotStamped
    /\ times[1] # times[2]
    /\ NotLater(times[1], times[2])
    /\ SameBucket(times[1], times[2])
    /\ ~LastOfBucket(times[1])
    /\ times[1].nsec # stamps[1].nano

-----------------------------------------------------------------------------
\* The locking discipline, outermost first.
LockOrder ==
    <<"device.peers", "peer", "peer.keypairs", "peer.handshake.mutex",
      "device.indexTable">>

\* The place of a lock in the order, 0 for a lock the order does not list.
Rank(l) ==
    IF \E i \in DOMAIN LockOrder : LockOrder[i] = l
      THEN CHOOSE i \in DOMAIN LockOrder : LockOrder[i] = l
      ELSE 0

\* The lock goroutine t is requesting: the one its next statement locks.
Requests(t, l) ==
    /\ NextStatement(t).do \in {"Lock", "RLock"}
    /\ NextStatement(t).on = l

\* Goroutine t waits for a lock that goroutine u holds.
WaitsFor(t, u) ==
    \E l \in LockNames :
        /\ Requests(t, l)
        /\ \/ locks[l].writer = u
           \/ NextStatement(t).do = "Lock" /\ u \in locks[l].readers

\* C18: no goroutine running NewPeer, SendBuffer, Start, Stop,
\* ZeroAndFlushAll, ExpireCurrentKeypairs or SetEndpointAddress requests a
\* lock of the order peer-map, peer, keypairs, handshake, index-table while
\* it holds one that is later in the order or the same, and no set of
\* goroutines is reachable in which each waits for a lock another one holds.
LocksAcquiredInOrder ==
    /\ \A t \in Threads : \A l \in LockNames, h \in HeldBy(t) :
           Requests(t, l) /\ Rank(l) > 0 /\ Rank(h) > 0 => Rank(h) < Rank(l)
    /\ \A W \in SUBSET Threads :
           W # {} => \E t \in W : \A u \in W : ~WaitsFor(t, u)

\* C18 witness: a goroutine that holds the keypairs lock waits for the
\* index-table lock, which another goroutine took under the handshake lock.
LocksAcquiredInOrderWitness ==
    \E t \in Threads, u \in Threads :
        /\ "peer.keypairs" \in HeldBy(t)
        /\ Requests(t, "device.indexTable")
        /\ WaitsFor(t, u)
        /\ "peer.handshake.mutex" \in HeldBy(u)

\* The lock that protects a field, None for a field that needs none.
ProtectedBy(field) ==
    IF field \in {"handshake.precomputedStaticStatic", "handshake.remoteStatic",
                  "handshake.initiationLimit", "handshake.localIndex",
                  "handshake.state", "handshake.lastSentHandshake"}
      THEN "peer.handshake.mutex"
      ELSE IF field \in {"keypairs.previous", "keypairs.current"}
             THEN "peer.keypairs"
             ELSE None

\* C19 as claimed: every write of a handshake field is made by a goroutine
\* that holds the handshake lock, and every write of the previous and
\* current keypair slots by one that holds the keypairs lock.
WritesUnderLock ==
    access.do = "Write" /\ ProtectedBy(access.on) # None
        => ProtectedBy(access.on) \in access.held

-----------------------------------------------------------------------------
\* The bytes queued for bind c's receive function of family f, in order:
\* those of the buffers in the channel, then those of the buffer of a Send
\* that waits at its channel send.
Queued(c, f) ==
    LET q == chans[rx(c, f)] \o Waiting(Other(c), f)
    IN  [i \in 1..Len(q) |-> Bytes(mem, q[i])]

\* The bytes bind c sent to its target of family f that the other bind's
\* receive function of that family has not returned yet, in the order sent.
Undelivered(c, f) == wire[<<c, f>>]

\* What is queued for each receive function is what the other bind sent to
\* its target of that family and was not yet received: the bytes as they
\* were at the Send, in the order sent, and nothing the bind sent itself.
QueuedIsUndelivered ==
    \A c \in Binds, f \in Families : Queued(c, f) = Undelivered(Other(c), f)

\* This step is a call of Send by bind c, from its start.
SendCalled(c) ==
    /\ sending[c] = NoSend
    /\ \/ sending'[c] # NoSend
       \/ bindRet'.call = "Send" /\ bindRet'.bind = c

\* The step enqueues nothing and leaves no Send waiting at its channel send.
NothingEnqueued(c) ==
    /\ chans' = chans
    /\ sending'[c] = NoSend

\* This step is a receive function of bind c returning a buffer.
Received(c, f) ==
    /\ bindRet'.call = "Receive"
    /\ bindRet'.err = "nil"
    /\ Queued(c, f)' # Queued(c, f)

\* C21 as claimed: every buffer a bind sends to its target4 or target6 is
\* delivered to the other bind's receive function of that family,
\* byte-identical, once and in the order sent, and never to the sender; a
\* Send after Close returns net.ErrClosed and a Send to another endpoint
\* os.ErrInvalid, and neither enqueues anything.
ChannelBindsDeliverAlways ==
    /\ []QueuedIsUndelivered
    /\ [][\A c \in Binds, f \in Families :
            Received(c, f) =>
                /\ bindRet'.b = Head(Undelivered(Other(c), f))
                /\ Undelivered(Other(c), f)' = Tail(Undelivered(Other(c), f))]_vars
    /\ [][\A c \in Binds :
            /\ bindRet.call = "Close" /\ bindRet.bind = c /\ SendCalled(c)
                   => bindRet'.err = "net.ErrClosed" /\ NothingEnqueued(c)
            /\ SendCalled(c) /\ bindRet'.call = "Send"
                   /\ (\A f \in Families : bindRet'.ep # target(c, f))
                   => bindRet'.err \in {"os.ErrInvalid", "net.ErrClosed"}
                      /\ NothingEnqueued(c)]_vars
    /\ \A c \in Binds, f \in Families :
           Queued(c, f) # <<>> ~> Queued(c, f) = <<>>

\* C21: what is queued for a bind's receive function of a family is always
\* what the other bind sent to its target of that family and was not yet
\* received, with the bytes of the time of the Send and in the order sent;
\* the receive function returns the first of them, whole when its buffer is
\* long enough and cut to the buffer's length otherwise, and a queued
\* buffer is received while the receiving bind stays open.  A Send on a
\* bind whose closeSignal is closed returns net.ErrClosed, a Send to another
\* endpoint on a bind that is not closed returns os.ErrInvalid, and neither
\* enqueues anything.
ChannelBindsDeliver ==
    /\ []QueuedIsUndelivered
    /\ [][\A c \in Binds, f \in Families :
            Received(c, f) =>
                /\ bindRet'.b = Copy(bindRet'.size, Head(Undelivered(Other(c), f)))
                /\ Undelivered(Other(c), f)' = Tail(Undelivered(Other(c), f))]_vars
    /\ [][\A c \in Binds :
            /\ closeSignal[c] = "closed" /\ SendCalled(c)
                   => bindRet'.err = "net.ErrClosed" /\ NothingEnqueued(c)
            /\ closeSignal[c] # "closed" /\ SendCalled(c) /\ bindRet'.call = "Send"
                   /\ (\A f \in Families : bindRet'.ep # target(c, f))
                   => bindRet'.err = "os.ErrInvalid" /\ NothingEnqueued(c)]_vars
    /\ \A c \in Binds, f \in Families :
           (closeSignal[c] = "open" /\ Queued(c, f) # <<>>)
               ~> (closeSignal[c] # "open" \/ Queued(c, f) = <<>>)

\* C21 witness: a channel was full with two buffers of different bytes
\* and a Send of a third waited at its channel send, all that had been
\* sent; the receive function has returned the one sent first, a two-byte
\* buffer, whole, after the caller changed its buffer; the channel is full
\* again, the one sent second first and the buffer of the Send that waited
\* last, and that Send, its bind closed in the meantime, has yet to return.
ChannelBindsDeliverWitness ==
    \E c \in Binds, f \in Families :
        /\ bindRet.call = "Receive"
        /\ bindRet.err = "nil"
        /\ bindRet.b = <<0, 1>>
        /\ Len(chans[rx(c, f)]) = ChannelCapacity
        /\ made = ChannelCapacity + 1
        /\ Head(Queued(c, f)) = <<1>>
        /\ Queued(c, f)[ChannelCapacity] = <<0, 1>>
        /\ mem[CallerBuffer] # bindRet.b
        /\ sending[Other(c)] # NoSend
        /\ sending[Other(c)].queued
        /\ sending[Other(c)].f = f
        /\ closeSignal[Other(c)] = "closed"

====
